---- MODULE Spec2Model ----
(***************************************************************************)
(* A model of the MongoDB Kubernetes charm: src/src/charm.py (MongoDBCharm) *)
(* and src/lib/charms/mongodb/v0/mongodb_backups.py (MongoDBBackups).       *)
(*                                                                          *)
(* The charm is the program of ONE unit.  The model is that one process     *)
(* (Self) and the world it talks to: the peer relation, leadership, the     *)
(* replica-set configuration held by the database, the backup tool (pbm).   *)
(* A handler runs to completion before the next event is dispatched         *)
(* (pc = "idle" between handlers); inside a handler every call to the       *)
(* cluster driver or to the backup tool is one step whose outcome the       *)
(* environment chooses.                                                     *)
(***************************************************************************)
EXTENDS Integers, Sequences, FiniteSets, TLC

\* ------------------------------------------------------------------ bounds
\* Number of units of the application (unit ids 0 .. NumUnits-1).
NumUnits == 3

\* ------------------------------------------------------------- identities
AppName == "mongodb"
\* A unit is its name "<app>/<id>", kept as the pair the code splits it into.
UnitName(i) == <<AppName, i>>
Units == {UnitName(i) : i \in 0..(NumUnits - 1)}
Self == UnitName(0)
\* event.unit of an event that carries no unit (None).
NoUnit == <<>>

\* f"{app}-{unit_id}.{app}-endpoints" with unit_id = unit.name.split("/")[1]
get_hostname_for_unit(unit) == <<AppName, "-", unit[2], ".", AppName, "-endpoints">>
Hosts == {get_hostname_for_unit(u) : u \in Units}

\* self_unit + [hostname of every unit of the peer relation], as the set
\* MongoDBConfiguration.hosts is built from (set(hosts)).
_unit_hosts(peers) ==
    {get_hostname_for_unit(Self)} \cup {get_hostname_for_unit(u) : u \in peers}

\* ---------------------------------------------------------------- statuses
Status(kind, message) == [kind |-> kind, message |-> message]
ActiveStatus(m) == Status("active", m)
WaitingStatus(m) == Status("waiting", m)
BlockedStatus(m) == Status("blocked", m)
MaintenanceStatus(m) == Status("maintenance", m)
\* The status of a unit no handler has set yet, and an unset local.
UnknownStatus == Status("unknown", "")
NoStatus == Status("none", "")

VARIABLES
    \* ---- the world
    live,             \* hosts in the replica-set configuration of the database
    peer_units,       \* self._peers.units: the remote units of the peer relation
    is_leader,        \* self.unit.is_leader()
    db_initialised,   \* "db_initialised" in app_peer_data
    init_history,     \* the init_replset calls so far: "none" succeeded,
                      \* or one "succeeded"
    users_created,    \* users with "<username>-user-created" in app_peer_data
    unit_departed,    \* unit_peer_data["unit_departed"]: "absent", "True" or ""
    s3_relation,      \* model.get_relation(S3_RELATION) is not None
    unit_status,      \* self.unit.status
    layers,           \* per service of the Pebble plan, the password in its URI
    \* ---- the handler being run, and the record of the last run
    pc,               \* position of the running handler, "idle" between handlers
    event,            \* the event being handled (of the last handler when idle)
    replset_members,  \* local of _relation_changes_handler (line 414)
    mongodb_hosts,    \* local of _relation_changes_handler (line 415)
    todo,             \* members the running loop has still to visit
    calls,            \* the driver calls of this handler run, in order
    deferred,         \* event.defer() was called in this run
    escaped,          \* the exception that left the handler, "none" if none
    propagated,       \* _update_app_relation_data ran in this run
    after,            \* what this run follows directly (see Follows)
    failed,           \* the message of event.fail() in this run, "" if none
    mongodb_status,   \* local of _on_update_status (line 478)
    database_status,  \* what build_unit_status reports while this handler
                      \* runs, NoStatus in the runs that do not follow it
    pbm_status,       \* local of _on_update_status (line 481)
    pbm_polls,        \* number of _get_pbm_status() calls of this run
    \* ---- the credentials-changed handler (MongoDBBackups)
    attempt,          \* attempts begun by the pre-check Retrying loop
    restarts,         \* restart_backup_service() calls of this run
    maint_seen,       \* pre-check polls of this run that were MaintenanceStatus
    waiting_seen,     \* pre-check polls of this run that were WaitingStatus
    resyncs,          \* "config --force-resync" commands of this run
    outer_attempt,    \* attempts of the @retry of _wait_pbm_status
    inner_attempt,    \* attempts of the Retrying loop inside _wait_pbm_status
    wait_polls,       \* status polls made by _wait_pbm_status in this run
    wait_error,       \* the last of them raised ExecError (until the run ends)
    wait_resync,      \* the last of them reported a resync in progress
    pbm_cmds,         \* pbm commands other than status polls, with results
    pushed,           \* the pbm config file was pushed in this run
    s3_credentials,   \* s3_client.get_s3_connection_info(), as its items
    cfg_todo,         \* items of _get_pbm_configs() still to be set
    \* ---- the stop handler (charm.py 445-457)
    timeout,          \* local of _on_stop (line 449)
    is_in_replica_set, \* local of _on_stop (line 448)
    stop_polls,       \* is_unit_in_replica_set() calls of this run
    \* ---- the secrets of the charm (charm.py 814-948)
    has_secrets,      \* JujuVersion.from_environ().has_secrets
    secret_content,   \* content of the secret of each scope whose peer data
                      \* hold a secret id ("internal-secret")
    secrets,          \* self.secrets: the cache of each scope with a secret
    peer_data_keys,   \* per scope: the keys kept in the peer data itself
    secret_op,        \* the last secret operation, its result and writes
    tombstoned,       \* <<scope, key>> removed and not set again since
    \* ---- the diagnosis of a tool error
    error_text,       \* the error text of the backup tool, as its symbols
    remapping         \* the result of matching REMAPPING_PATTERN on it

secret_state == <<has_secrets, secret_content, secrets, peer_data_keys,
                  secret_op, tombstoned>>

diagnosis == <<error_text, remapping>>

world == <<live, peer_units, is_leader, db_initialised, init_history,
           users_created,
           unit_departed, s3_relation, unit_status, layers, s3_credentials,
           secret_state, diagnosis>>
reconcile == <<replset_members, mongodb_hosts, todo, calls, propagated>>
handler == <<pc, event, deferred, escaped, after, failed>>
projection == <<mongodb_status, database_status, pbm_status, pbm_polls>>
backup == <<attempt, restarts, maint_seen, waiting_seen, resyncs,
            outer_attempt, inner_attempt, wait_polls, wait_error,
            wait_resync, pbm_cmds, pushed, cfg_todo>>
stopping == <<timeout, is_in_replica_set, stop_polls>>
vars == <<world, reconcile, handler, projection, backup, stopping>>


\* ------------------------------------------------------------------ events
NoEvent == [type |-> "none", unit |-> NoUnit]
\* Peer relation joined / changed / departed.  The handler reads event.unit
\* of a relation-departed event only (line 430), so only that event carries
\* its remote unit here.
PeerEvents ==
    {[type |-> "relation_joined", unit |-> NoUnit],
     [type |-> "relation_changed", unit |-> NoUnit]}
    \cup [type : {"relation_departed"}, unit : Units \ {Self}]
LeaderElected == [type |-> "leader_elected", unit |-> NoUnit]
UpdateStatus == [type |-> "update_status", unit |-> NoUnit]
StartEvent == [type |-> "start", unit |-> NoUnit]
StopEvent == [type |-> "stop", unit |-> NoUnit]
\* The events _relation_changes_handler is registered for (lines 88-101).
ReconcileEvents == PeerEvents \cup {LeaderElected}

\* ------------------------------------------------------ the cluster driver
\* A driver call ends normally or raises NotReadyError or another PyMongoError.
DriverResults == {"ok", "NotReadyError", "PyMongoError"}
NoHost == <<>>
Call(op, host, result) == [op |-> op, host |-> host, result |-> result]
MembershipWrites == {"add_replset_member", "remove_replset_member"}

\* ------------------------------------------- _relation_changes_handler
\* The gate left open to every unit.
leader_gate_open(leader) == TRUE

\* line 402: "if not self.unit.is_leader(): return"
leader_gate(leader) == leader

\* line 409: "if not self.db_initialised: return"
initialised_gate(initialised) == initialised

\* line 419: "if replset_members == mongodb_hosts"
members_match(members, hosts) == members = hosts

\* The reconfiguration that removes nothing.
units_to_remove_none(members, hosts) == {}

\* line 426: replset_members - mongodb_hosts
units_to_remove(members, hosts) == members \ hosts

\* The additions without the difference with the fetched members.
units_to_add_without_diff(ev, members, hosts) ==
    IF ev.type = "relation_departed" /\ ev.unit # NoUnit
    THEN hosts \ {get_hostname_for_unit(ev.unit)}
    ELSE hosts

\* The additions without the exclusion of the departed unit.
units_to_add_ignoring_departure(ev, members, hosts) == hosts \ members

\* lines 430-433: on a relation-departed event the departed unit is taken out
\* of mongodb_hosts before mongodb_hosts - replset_members is added.
units_to_add(ev, members, hosts) ==
    (IF ev.type = "relation_departed" /\ ev.unit # NoUnit
     THEN hosts \ {get_hostname_for_unit(ev.unit)}
     ELSE hosts) \ members

\* The reconfiguration with the additions ahead of the removals.
reconfigure_body_adds_first == <<"add", "remove", "propagate">>

\* lines 426-436: the statements of the reconfiguration, in program order.
reconfigure_body == <<"remove", "add", "propagate">>

\* The handler without its second except clause (lines 441-443).
handler_catches_not_ready_only(exc) == exc = "NotReadyError"

\* lines 438-443: the exceptions the handler catches (and defers on).
handler_catches(exc) == exc \in {"NotReadyError", "PyMongoError"}

\* The addition without the readiness test.
may_add_always(ready) == TRUE

\* line 793: "if not direct_mongo.is_ready: ... defer; return"
may_add(ready) == ready

\* lines 806-812
_set_leader_unit_active_if_needed(status) ==
    IF status.kind = "waiting" /\ status.message = "waiting to reconfigure replica set"
    THEN ActiveStatus("")
    ELSE status

\* Where a handler goes when _relation_changes_handler returns: back into
\* _on_update_status (line 474) or to the end of the event.
Finish(ev) == IF ev.type = "update_status" THEN "project" ELSE "idle"

\* The statement after statement p of the reconfiguration.
StatementAfter(p) ==
    LET i == CHOOSE k \in DOMAIN reconfigure_body : reconfigure_body[k] = p
    IN  IF i < Len(reconfigure_body) THEN reconfigure_body[i + 1] ELSE "return"

\* The members the loop of statement p visits.
LoopOver(p, ev, members, hosts) ==
    CASE p = "remove" -> units_to_remove(members, hosts)
      [] p = "add" -> units_to_add(ev, members, hosts)
      [] OTHER -> {}

\* Control passes to statement p ("return": the handler is done).
Goto(p, members, hosts) ==
    /\ pc' = IF p = "return" THEN Finish(event) ELSE p
    /\ todo' = LoopOver(p, event, members, hosts)

\* A driver call raised exc inside the try block of lines 413-443.
Raise(exc) ==
    /\ todo' = {}
    /\ IF handler_catches(exc)
       THEN /\ deferred' = TRUE
            /\ escaped' = escaped
            /\ pc' = Finish(event)
       ELSE /\ deferred' = deferred
            /\ escaped' = exc
            /\ pc' = "idle"


\* ------------------------------------------------------ the backup status
\* What one call of _get_pbm_status can meet: the pbm-agent service is not
\* there, the status command fails, or the tool answers in one of the four
\* categories its output is classified into (process_pbm_status).
PbmOutcomes ==
    {"no_service", "idle", "running", "resync", "error",
     "ExecError", "CalledProcessError", "Exception"}

\* helpers.process_pbm_error: the message for the output of a failed command.
process_pbm_error(stdout) == "pbm error"

\* ---- the error text of the tool and REMAPPING_PATTERN (line 63)
\* An error text is a sequence of symbols: single characters, and two
\* symbols that stand for the fixed words of the pattern.  Preamble is the
\* text from "Backup doesn't match current cluster topology" to "are: ";
\* NoData is " Backup has no data for the config server or sole replicaset".
Preamble == "Backup doesn't match current cluster topology ... are: "
NoData == " Backup has no data for the config server or sole replicaset"
Symbols == {Preamble, NoData, "r", "s", "1", ".", ",", " "}

\* Longest error text drawn.
MaxText == 5
Texts == UNION {[1..n -> Symbols] : n \in 0..MaxText}

\* [^,\s]: one character that is neither a comma nor whitespace.  The two
\* symbols of fixed words hold spaces.
NameChar(c) == c \notin {",", " ", Preamble, NoData}

\* What re.search returns: None, or a match with its two groups; a group
\* that took no part in the match is the empty sequence (None in Python;
\* neither group of the pattern can match the empty string).
NotSearched == [match |-> "pending", groups |-> <<>>]
NoMatch == [match |-> "None", groups |-> <<>>]
Match(name, nodata) == [match |-> "Match", groups |-> <<name, nodata>>]

\* line 63: \A, the preamble, group 1 = ([^,\s]+), the optional group 2 =
\* ([.] Backup has no data ... replicaset)?, \Z.  Group 1 is greedy: of the
\* lengths it can take with the rest still matching, the longest is taken.
\* \Z is the very end of the text.
REMAPPING_PATTERN(text) ==
    LET NoDataGroup == <<".", NoData>>
        rest(n) == SubSeq(text, n + 2, Len(text))
        takes == {n \in 1..(Len(text) - 1) :
                    /\ \A i \in 2..(n + 1) : NameChar(text[i])
                    /\ rest(n) \in {NoDataGroup, <<>>}}
        longest == CHOOSE n \in takes : \A k \in takes : k <= n
    IN  IF Len(text) = 0 THEN NoMatch
        ELSE IF text[1] # Preamble \/ takes = {} THEN NoMatch
        ELSE Match(SubSeq(text, 2, longest + 1),
                   IF rest(longest) = NoDataGroup THEN NoDataGroup ELSE <<>>)

\* helpers.process_pbm_status: maintenance while a backup or restore runs,
\* waiting while a resync runs, blocked on a tool error, else active.
process_pbm_status(out) ==
    CASE out = "running" -> MaintenanceStatus("backup or restore running")
      [] out = "resync" -> WaitingStatus("waiting to sync s3 configurations.")
      [] out = "error" -> BlockedStatus(process_pbm_error(out))
      [] OTHER -> ActiveStatus("")

\* lines 336-359
_get_pbm_status(out) ==
    CASE out = "no_service" -> WaitingStatus("waiting for pbm to start")
      [] out = "ExecError" -> BlockedStatus(process_pbm_error(out))
      [] out = "CalledProcessError" -> BlockedStatus(process_pbm_error(out))
      [] out = "Exception" -> BlockedStatus("PBM error")
      [] OTHER -> process_pbm_status(out)

\* helpers.build_unit_status: the status of this member in the replica set.
DbStatuses ==
    {ActiveStatus("Replica set primary"),
     WaitingStatus("Member being added.."),
     BlockedStatus("unknown")}

\* The projection with the backup status ahead of the database status.
projected_status_backup_first(db, s3, pbm) ==
    IF s3 /\ pbm.kind # "active" THEN pbm ELSE db

\* The projection without the test of the s3 relation (lines 484-486).
projected_status_any_relation(db, s3, pbm) ==
    IF db.kind # "active" \/ pbm.kind = "active" THEN db ELSE pbm

\* The statuses a call of _get_pbm_status can return.
PbmStatuses == {_get_pbm_status(out) : out \in PbmOutcomes}

\* lines 482-491: MongoDB's status wins unless it is active, the s3 relation
\* exists and pbm is not active.
projected_status(db, s3, pbm) ==
    IF db.kind # "active" \/ ~s3 \/ pbm.kind = "active" THEN db ELSE pbm

\* ------------------------------------------- the credentials-changed handler
CredentialsChanged == [type |-> "credentials_changed", unit |-> NoUnit]

\* The attempts of the three retry loops of the resync.
PreCheckAttempts == 20
ResyncAttempts == 20
ConfigErrorAttempts == 3

\* lines 53-61
S3_PBM_OPTION_MAP ==
    ("region" :> "storage.s3.region")
    @@ ("bucket" :> "storage.s3.bucket")
    @@ ("path" :> "storage.s3.prefix")
    @@ ("access-key" :> "storage.s3.credentials.access-key-id")
    @@ ("secret-key" :> "storage.s3.credentials.secret-access-key")
    @@ ("endpoint" :> "storage.s3.endpointUrl")
    @@ ("storage-class" :> "storage.s3.storageClass")

Item(option, value) == [option |-> option, value |-> value]
\* What the s3 relation can hold (s3_client.get_s3_connection_info()), as
\* the items of the dictionary in their order.
CredentialRecords ==
    {<<>>,
     <<Item("bucket", "b1"), Item("region", "r1")>>,
     <<Item("bucket", "b2"), Item("tls-ca-chain", "ca"), Item("endpoint", "e1")>>}

\* lines 254-263 without the test of line 259: a field the map does not know
\* is passed on under its own name.
_get_pbm_configs_keeping_unknown(credentials) ==
    <<Item("storage.type", "s3")>>
    \o [i \in 1..Len(credentials) |->
           IF credentials[i].option \in DOMAIN S3_PBM_OPTION_MAP
           THEN Item(S3_PBM_OPTION_MAP[credentials[i].option],
                     credentials[i].value)
           ELSE credentials[i]]

\* lines 254-263: storage.type first, then every option the map knows, under
\* its pbm key, in the order of the credentials.
_get_pbm_configs(credentials) ==
    LET known == SelectSeq(credentials,
                           LAMBDA c : c.option \in DOMAIN S3_PBM_OPTION_MAP)
    IN  <<Item("storage.type", "s3")>>
        \o [i \in 1..Len(known) |->
               Item(S3_PBM_OPTION_MAP[known[i].option], known[i].value)]

\* How a pbm command other than a status poll can end (run_pbm_command).
CmdResults == {"ok", "ExecError", "CalledProcessError"}
Cmd(cmd, arg, result) == [cmd |-> cmd, arg |-> arg, result |-> result]

\* The loop stopping one attempt short.
stop_before_attempt(max_attempt_number, attempt_number) ==
    attempt_number >= max_attempt_number - 1

\* tenacity.stop_after_attempt as used on lines 273, 296 and 317: no attempt
\* follows attempt number max_attempt_number.
stop_after_attempt(max_attempt_number, attempt_number) ==
    attempt_number >= max_attempt_number

\* The pre-check that takes every status for one that accepts a resync.
precheck_never_busy(status) == [restart |-> FALSE, busy |-> FALSE]

\* The pre-check with the restart made on every busy status.
precheck_restarting_when_busy(status) ==
    IF status.kind \in {"maintenance", "waiting"}
    THEN [restart |-> TRUE, busy |-> TRUE]
    ELSE [restart |-> FALSE, busy |-> FALSE]

\* lines 278-287: what one attempt of the pre-check loop does with the status
\* it polled: a running backup or restore raises PBMBusyError at once; a
\* waiting status restarts the service, then raises; any other status ends
\* the loop.
precheck(status) ==
    IF status.kind = "maintenance"
    THEN [restart |-> FALSE, busy |-> TRUE]
    ELSE IF status.kind = "waiting"
         THEN [restart |-> TRUE, busy |-> TRUE]
         ELSE [restart |-> FALSE, busy |-> FALSE]

\* What a status poll of _wait_pbm_status can meet (lines 322-334).
WaitOutcomes == {"idle", "resync", "ExecError", "CalledProcessError", "Exception"}

\* ------------------------------------------------------- the backup actions
\* event.params.get("backup-id") of a restore action: missing, or an id.
BackupIds == {"", "backup-1"}
ActionEvent(type, backup_id) ==
    [type |-> type, unit |-> NoUnit, backup_id |-> backup_id]
\* The actions MongoDBBackups observes (lines 94-96).
ActionEvents ==
    {ActionEvent("create_backup_action", ""),
     ActionEvent("list_backups_action", "")}
    \cup {ActionEvent("restore_action", id) : id \in BackupIds}

\* What a handler does with the event: fail it with a message, defer it, or
\* neither.
Admit == [fail |-> "", defer |-> FALSE]
Fail(message) == [fail |-> message, defer |-> FALSE]
Defer == [fail |-> "", defer |-> TRUE]

\* The checks of create-backup without the one of leadership.
create_backup_precheck_any_unit(s3, leader) ==
    IF ~s3
    THEN "Relation with s3-integrator charm missing, cannot create backup."
    ELSE ""

\* lines 117-125: the checks create-backup makes before it polls the status;
\* the message of the first one that fails, "" when all pass.
create_backup_precheck(s3, leader) ==
    IF ~s3
    THEN "Relation with s3-integrator charm missing, cannot create backup."
    ELSE IF ~leader
         THEN "The action can be run only on leader unit."
         ELSE ""

\* The checks of list-backups without the one of the relation.
list_backups_precheck_no_relation_test(s3, leader) == ""

\* lines 149-151: the one check list-backups makes before it polls the status.
list_backups_precheck(s3, leader) ==
    IF ~s3
    THEN "Relation with s3-integrator charm missing, cannot list backups."
    ELSE ""

\* The checks of restore with the one of leadership ahead of the backup-id.
restore_precheck_leader_first(s3, leader, backup_id) ==
    IF ~s3
    THEN "Relation with s3-integrator charm missing, cannot restore from a backup."
    ELSE IF ~leader
         THEN "The action can be run only on leader unit."
         ELSE IF backup_id = ""
              THEN "Missing backup-id to restore"
              ELSE ""

\* lines 170-183: the checks restore makes before it polls the status.
restore_precheck(s3, leader, backup_id) ==
    IF ~s3
    THEN "Relation with s3-integrator charm missing, cannot restore from a backup."
    ELSE IF backup_id = ""
         THEN "Missing backup-id to restore"
         ELSE IF ~leader
              THEN "The action can be run only on leader unit."
              ELSE ""

\* create-backup admitted while a backup or a restore runs.
create_backup_admission_during_operation(status) ==
    CASE status.kind = "waiting" -> Defer
      [] status.kind = "blocked" ->
            Fail("Cannot create backup " \o status.message \o ".")
      [] OTHER -> Admit

\* lines 131-144: what create-backup does with the status it polled.
create_backup_admission(status) ==
    CASE status.kind = "maintenance" ->
            Fail("Can only create one backup at a time, please wait for current backup to finish.")
      [] status.kind = "waiting" -> Defer
      [] status.kind = "blocked" ->
            Fail("Cannot create backup " \o status.message \o ".")
      [] OTHER -> Admit

\* list-backups rejected while a backup or a restore runs, as create-backup is.
list_backups_admission_as_create(status) ==
    CASE status.kind = "maintenance" ->
            Fail("Can only create one backup at a time, please wait for current backup to finish.")
      [] status.kind = "waiting" -> Defer
      [] status.kind = "blocked" ->
            Fail("Cannot list backups: " \o status.message \o ".")
      [] OTHER -> Admit

\* lines 155-165: what list-backups does with the status it polled.
list_backups_admission(status) ==
    CASE status.kind = "waiting" -> Defer
      [] status.kind = "blocked" ->
            Fail("Cannot list backups: " \o status.message \o ".")
      [] OTHER -> Admit

\* lines 190-199: what restore does with the status it polled.
restore_admission(status) ==
    CASE status.kind = "maintenance" ->
            Fail("Please wait for current backup/restore to finish.")
      [] status.kind = "waiting" -> Defer
      [] status.kind = "blocked" ->
            Fail("Cannot restore backup " \o status.message \o ".")
      [] OTHER -> Admit

\* ------------------------------------------------------------- the secrets
\* The two scopes of the secrets, and the labels of config.py 83-91.
Scopes == {"app", "unit"}
SECRET_DELETED_LABEL == "None"
\* The keys and values the handlers use (passwords, the keyfile); a value
\* is any non-empty string, the text of SECRET_DELETED_LABEL being one.
SecretKeys == {"k1", "k2"}
SecretValues == {"v1", SECRET_DELETED_LABEL}
\* The passwords an operator passes to set-password or generate_password()
\* returns (line 521).
Passwords == {"p1", "p2"}
\* What callers pass to set_secret: a value, or the empty value.
SecretInputs == SecretValues \cup {""}
\* dict.get(key) of a key the dict does not hold (Python's None).
Missing == "<missing>"
\* A dict is the function from the keys it holds to their values.
EmptyDict == <<>>
Get(dict, key) == IF key \in DOMAIN dict THEN dict[key] ELSE Missing
Put(dict, key, value) == (key :> value) @@ dict
Del(dict, key) == [k \in DOMAIN dict \ {key} |-> dict[k]]
\* The services whose Pebble layer carries a password in its URI (lines
\* 196-233); NoLayers: neither layer was added yet.
Services == {"mongodb_exporter", "pbm-agent"}
NoLayers == [service \in Services |-> Missing]
\* secret.set_content() ends normally or raises the OSError of line 887.
WriteResults == {"ok", "OSError"}

SecretOp(op, scope, key, value, result, writes) ==
    [op |-> op, scope |-> scope, key |-> key, value |-> value,
     result |-> result, writes |-> writes]
NoSecretOp == [op |-> "none"]

\* lines 814-841: the cache of the scope in self.secrets after the call
\* (NoCache: self.secrets[scope] is still empty) and the value returned,
\* for fetched, the scopes self.secrets holds a secret and its cache for,
\* stored, the content of the secret of each scope whose peer data hold a
\* secret id, and found, whether model.get_secret() finds the secret.
NoCache == [cached |-> FALSE]
Cached(cache) == [cached |-> TRUE, cache |-> cache]
_juju_secrets_get(fetched, stored, scope, found) ==
    IF scope \notin DOMAIN stored
    THEN [entry |-> NoCache, ret |-> FALSE]
    ELSE IF scope \notin DOMAIN fetched /\ ~found
    THEN [entry |-> NoCache, ret |-> FALSE]
    ELSE LET cache == IF scope \in DOMAIN fetched THEN fetched[scope]
                      ELSE stored[scope]
         IN  [entry |-> Cached(cache), ret |-> cache # EmptyDict]

\* lines 843-854, for got the outcome of _juju_secrets_get.
_juju_secret_get_key(got, key) ==
    IF /\ got.ret
       /\ Get(got.entry.cache, key) # Missing
       /\ Get(got.entry.cache, key) # SECRET_DELETED_LABEL
    THEN got.entry.cache[key]
    ELSE Missing

\* line 878 with a test that never holds.
already_set_never(secret_cache, key, value) == FALSE

\* line 878: the cache already holds this value for the key.
already_set(secret_cache, key, value) == Get(secret_cache, key) = value

\* ------------------------------------------------------------ bookkeeping
\* What the run now beginning (of event ev) follows directly: "none" when
\* the last step was not a reconfiguration pass that fetched the members;
\* otherwise "deferred" when that pass deferred its event; "same" when it
\* completed and took no departing unit out of its additions, or took out
\* the one this run takes out too; else "other".
\* Any step of the environment between two runs clears the record of the
\* earlier one, so a value other than "none" says the two runs came in
\* succession, with the same inventory, leadership and cluster.
Follows(ev) ==
    IF /\ event.type \in {e.type : e \in ReconcileEvents \cup {UpdateStatus}}
       /\ calls # <<>>
       /\ escaped = "none"
    THEN IF deferred THEN "deferred"
         ELSE IF event.type # "relation_departed" \/ event = ev
              THEN "same"
              ELSE "other"
    ELSE "none"

BackupIdle ==
    /\ attempt' = 0 /\ restarts' = 0 /\ maint_seen' = 0 /\ waiting_seen' = 0
    /\ resyncs' = 0 /\ outer_attempt' = 0 /\ inner_attempt' = 0
    /\ wait_polls' = 0 /\ pbm_cmds' = <<>> /\ cfg_todo' = <<>>
    /\ wait_error' = FALSE /\ wait_resync' = FALSE /\ pushed' = FALSE

\* A handler begins: its locals and the record of its run are fresh; the
\* record of its driver calls is left to the handler.
Arrive(ev) ==
    /\ event' = ev
    /\ after' = Follows(ev)
    /\ failed' = ""
    /\ propagated' = FALSE
    /\ replset_members' = {} /\ mongodb_hosts' = {} /\ todo' = {}
    /\ mongodb_status' = NoStatus /\ pbm_status' = NoStatus /\ pbm_polls' = 0
    /\ BackupIdle

\* The status of the database is not followed in the run that begins.
Unfollowed == database_status' = NoStatus

\* The run that begins is not in the loop of the stop handler.
Unpolled == timeout' = 0 /\ is_in_replica_set' = FALSE /\ stop_polls' = 0

\* A handler begins, has made no driver call and no exception has left it.
Begin(ev) ==
    /\ Arrive(ev)
    /\ Unfollowed
    /\ Unpolled
    /\ calls' = <<>>
    /\ escaped' = "none"

\* The world changed between two handlers: no run is "the last run" any more.
Forget ==
    /\ pc' = "idle"
    /\ event' = NoEvent
    /\ after' = "none"
    /\ failed' = ""
    /\ calls' = <<>> /\ deferred' = FALSE /\ escaped' = "none"
    /\ propagated' = FALSE
    /\ replset_members' = {} /\ mongodb_hosts' = {} /\ todo' = {}
    /\ mongodb_status' = NoStatus /\ pbm_status' = NoStatus /\ pbm_polls' = 0
    /\ database_status' = NoStatus
    /\ BackupIdle
    /\ Unpolled

\* The state after construction, but for the secrets.
InitUnit ==
    /\ peer_units = {}
    /\ is_leader = FALSE
    /\ init_history = "none"
    /\ s3_relation = FALSE
    /\ unit_status = UnknownStatus
    /\ layers = NoLayers
    /\ pc = "idle"
    /\ event = NoEvent
    /\ after = "none"
    /\ failed = ""
    /\ calls = <<>> /\ deferred = FALSE /\ escaped = "none"
    /\ propagated = FALSE
    /\ replset_members = {} /\ mongodb_hosts = {} /\ todo = {}
    /\ mongodb_status = NoStatus /\ pbm_status = NoStatus /\ pbm_polls = 0
    /\ database_status = NoStatus
    /\ attempt = 0 /\ restarts = 0 /\ maint_seen = 0 /\ waiting_seen = 0
    /\ resyncs = 0 /\ outer_attempt = 0 /\ inner_attempt = 0
    /\ wait_polls = 0 /\ pbm_cmds = <<>> /\ cfg_todo = <<>>
    /\ wait_error = FALSE /\ wait_resync = FALSE /\ pushed = FALSE
    /\ timeout = 0 /\ is_in_replica_set = FALSE /\ stop_polls = 0
    /\ s3_credentials = <<>>

\* The unit of a new application: no replica set yet.
InitCharm ==
    /\ live = {}
    /\ db_initialised = FALSE
    /\ users_created = {}
    /\ unit_departed = "absent"
    /\ InitUnit

\* No secret was ever set; juju tells whether this Juju has secrets.
SecretsInit(juju) ==
    /\ has_secrets = juju
    /\ secret_content = <<>>
    /\ secrets = <<>>
    /\ peer_data_keys = [scope \in Scopes |-> EmptyDict]
    /\ secret_op = NoSecretOp
    /\ tombstoned = {}

\* No error text of the tool was searched.
NoDiagnosis == error_text = <<>> /\ remapping = NotSearched

\* The handlers of the specifications below never read the secrets: they
\* start on a Juju with secrets; SpecSecrets starts on either Juju.
Init == InitCharm /\ SecretsInit(TRUE) /\ NoDiagnosis
InitSecrets ==
    InitCharm /\ NoDiagnosis /\ \E juju \in BOOLEAN : SecretsInit(juju)

\* The tool has answered with an error text, any of Texts.
InitRemap ==
    /\ InitCharm /\ SecretsInit(TRUE)
    /\ error_text \in Texts
    /\ remapping = NotSearched

\* The secrets once the leader has generated the passwords of the operator
\* and the monitor user (lines 725-733), the same one here, in a secret of
\* the app scope or, without Juju secrets, in the peer data.
GeneratedSecrets(juju, password) ==
    LET generated == ("operator-password" :> password)
                     @@ ("monitor-password" :> password)
    IN  /\ has_secrets = juju
        /\ secret_content = IF juju THEN ("app" :> generated) ELSE <<>>
        /\ secrets = <<>>
        /\ peer_data_keys =
              [scope \in Scopes |->
                  IF scope = "app" /\ ~juju THEN generated ELSE EmptyDict]
        /\ secret_op = NoSecretOp
        /\ tombstoned = {}

\* set-password is run on a unit of an application whose leader has
\* generated the passwords: a unit is leader only after leader-elected, whose
\* handler generates them (line 407).
InitPassword ==
    /\ InitCharm /\ NoDiagnosis
    /\ \E juju \in BOOLEAN, password \in Passwords :
          GeneratedSecrets(juju, password)

\* ---------------------------------------------------------- the environment
\* A unit joins or leaves the peer relation (read by _unit_hosts).
PeersChange ==
    /\ pc = "idle"
    /\ \E u \in Units \ {Self} :
          peer_units' = IF u \in peer_units THEN peer_units \ {u}
                        ELSE peer_units \cup {u}
    /\ Forget
    /\ UNCHANGED <<live, is_leader, db_initialised, init_history,
                   users_created, unit_departed, s3_relation, unit_status,
                   s3_credentials, layers, diagnosis, secret_state>>

\* Juju moves leadership to or away from this unit.
LeaderChange ==
    /\ pc = "idle"
    /\ is_leader' = ~is_leader
    /\ Forget
    /\ UNCHANGED <<live, peer_units, db_initialised, init_history,
                   users_created, unit_departed, s3_relation, unit_status,
                   s3_credentials, layers, diagnosis, secret_state>>

\* The replica-set configuration changes outside this process (another
\* leader's reconfiguration, an operator at the mongo shell).
ClusterDrift ==
    /\ pc = "idle"
    /\ live # {}
    /\ \E h \in Hosts :
          /\ live' = IF h \in live THEN live \ {h} ELSE live \cup {h}
          /\ live' # {}
    /\ Forget
    /\ UNCHANGED <<peer_units, is_leader, db_initialised, init_history,
                   users_created, unit_departed, s3_relation, unit_status,
                   s3_credentials, layers, diagnosis, secret_state>>

\* The s3-credentials relation is created (no credentials in it yet) or
\* removed.
S3RelationChange ==
    /\ pc = "idle"
    /\ s3_relation' = ~s3_relation
    /\ s3_credentials' = <<>>
    /\ Forget
    /\ UNCHANGED <<live, peer_units, is_leader, db_initialised, init_history,
                   users_created, unit_departed, unit_status, layers,
                   diagnosis, secret_state>>


\* ------------------------------------------------------------------ _on_start
\* What the start handler meets before it initialises the replica set
\* (lines 362-386): the container, the socket, mongod's readiness, the exporter.
StartPreconditions == {"no_container", "no_socket", "not_ready", "ChangeError", "go"}
\* The users _initialise_replica_set creates, in the order of lines 768-770.
CharmUsers == {"operator", "backup", "monitor"}
\* How lines 764-783 end: the step that raised, or none.  A failed
\* init_replset, backup or monitor user or oversee_users raises what lines
\* 773-782 catch; a failed operator user raises the AdminUserCreationError of
\* line 621, which they do not.
InitOutcomes == {"init_failed", "operator_failed", "backup_failed",
                 "monitor_failed", "oversee_failed", "ok"}

\* lines 604, 634, 656: a user that is marked as created is not created
\* again, so its creation cannot fail.
init_possible(init, created) ==
    /\ init = "operator_failed" => "operator" \notin created
    /\ init = "backup_failed" => "backup" \notin created
    /\ init = "monitor_failed" => "monitor" \notin created

\* lines 624, 644, 668: the users marked as created by the steps that ran
\* before the one that raised.
users_marked(init) ==
    CASE init \in {"init_failed", "operator_failed"} -> {}
      [] init = "backup_failed" -> {"operator"}
      [] init = "monitor_failed" -> {"operator", "backup"}
      [] OTHER -> CharmUsers

\* MongoDBConnection.init_replset: replSetInitiate with the hosts of the
\* configuration; a replica set that is already initialised stays as it is.
init_replset(members, hosts) == IF members = {} THEN hosts ELSE members

\* lines 753-762: the replica set is initialised once, by the leader.
initialises(initialised, leader) == ~initialised /\ leader

\* line 785 with the flag set whatever the steps before it did.
flag_after_init_always(init) == TRUE

\* lines 764-785: the flag is set when no step raised.
flag_after_init(init) == init = "ok"

\* line 767: init_replset is called, and succeeds unless it is the step
\* that raised.
history_after_init(history, init) ==
    IF init = "init_failed" THEN history ELSE "succeeded"

\* The exception that leaves _initialise_replica_set, "none" if none.
init_escapes(init) ==
    IF initialises(db_initialised, is_leader) /\ init = "operator_failed"
    THEN "AdminUserCreationError"
    ELSE "none"

\* lines 751-785
_initialise_replica_set(init) ==
    IF ~initialises(db_initialised, is_leader)
    THEN /\ deferred' = FALSE
         /\ calls' = <<>>
         /\ UNCHANGED <<live, db_initialised, init_history, users_created>>
    ELSE /\ deferred' = (init \notin {"ok", "operator_failed"})
         /\ calls' = <<Call("init_replset", NoHost,
                            IF init = "init_failed" THEN "PyMongoError"
                            ELSE "ok")>>
         /\ live' = IF init = "init_failed" THEN live
                    ELSE init_replset(live, _unit_hosts(peer_units))
         /\ users_created' = users_created \cup users_marked(init)
         /\ db_initialised' = flag_after_init(init)
         /\ init_history' = history_after_init(init_history, init)

\* lines 344-391
_on_start ==
    /\ pc = "idle"
    /\ Arrive(StartEvent)
    /\ Unfollowed
    /\ Unpolled
    /\ pc' = "idle"
    /\ \E pre \in StartPreconditions :
          CASE pre \in {"no_container", "no_socket", "not_ready"} ->
                  /\ deferred' = TRUE
                  /\ escaped' = "none"
                  /\ calls' = <<>>
                  /\ UNCHANGED <<live, db_initialised, init_history,
                                 users_created, unit_status>>
            [] pre = "ChangeError" ->
                  /\ deferred' = FALSE
                  /\ escaped' = "none"
                  /\ calls' = <<>>
                  /\ unit_status' =
                        BlockedStatus("couldn't start mongodb exporter")
                  /\ UNCHANGED <<live, db_initialised, init_history,
                                 users_created>>
            [] OTHER ->
                  \E init \in InitOutcomes :
                      /\ init_possible(init, users_created)
                      /\ _initialise_replica_set(init)
                      /\ escaped' = init_escapes(init)
                      /\ unit_status' = IF init_escapes(init) = "none"
                                        THEN ActiveStatus("")
                                        ELSE unit_status
    /\ UNCHANGED <<peer_units, is_leader, unit_departed, s3_relation,
                   s3_credentials, layers, diagnosis, secret_state>>

\* -------------------------------------------------- _relation_changes_handler
\* lines 395-412: the way into the handler, up to the connection to the
\* replica set.  (_generate_secrets, line 407, writes secrets only.)
_relation_changes_handler(ev, departing) ==
    /\ unit_departed' =
          IF ev.type = "relation_departed" /\ departing = Self
             /\ unit_departed = "absent"
          THEN "True"
          ELSE unit_departed
    /\ pc' = IF leader_gate(is_leader) /\ initialised_gate(db_initialised)
             THEN "get_members"
             ELSE Finish(ev)

\* event.departing_unit of a relation-departed event: the remote unit of the
\* event, or this unit when it is the one going away.
DepartingUnits(ev) ==
    IF ev.type = "relation_departed" THEN {ev.unit, Self} ELSE {NoUnit}

\* A peer relation event or leader-elected is dispatched to this unit.
on_reconcile_event ==
    /\ pc = "idle"
    /\ \E ev \in ReconcileEvents :
          /\ Begin(ev)
          /\ \E departing \in DepartingUnits(ev) :
                _relation_changes_handler(ev, departing)
    /\ deferred' = FALSE
    /\ UNCHANGED <<live, peer_units, is_leader, db_initialised, init_history,
                   users_created, s3_relation, unit_status, s3_credentials,
                   layers, diagnosis, secret_state>>

\* lines 414-421: fetch the members, compare with the hosts of the inventory.
get_replset_members ==
    /\ pc = "get_members"
    /\ \E res \in DriverResults :
          /\ calls' = Append(calls, Call("get_replset_members", NoHost, res))
          /\ IF res = "ok"
             THEN /\ replset_members' = live
                  /\ mongodb_hosts' = _unit_hosts(peer_units)
                  /\ UNCHANGED <<deferred, escaped>>
                  /\ IF members_match(live, _unit_hosts(peer_units))
                     THEN /\ unit_status' =
                                _set_leader_unit_active_if_needed(unit_status)
                          /\ pc' = Finish(event)
                          /\ todo' = {}
                     ELSE /\ unit_status' = unit_status
                          /\ Goto(reconfigure_body[1], live,
                                  _unit_hosts(peer_units))
             ELSE /\ Raise(res)
                  /\ UNCHANGED <<replset_members, mongodb_hosts, unit_status>>
    /\ UNCHANGED <<live, peer_units, is_leader, db_initialised, init_history,
                   users_created, unit_departed, s3_relation, s3_credentials,
                   layers, diagnosis, secret_state, propagated, event, after,
                   failed, projection, backup, stopping>>

\* lines 799-804: one turn of the loop of _remove_units_from_replica_set.
remove_replset_member ==
    /\ pc = "remove"
    /\ \E member \in todo, res \in DriverResults :
          /\ calls' = Append(calls, Call("remove_replset_member", member, res))
          /\ IF res = "ok"
             THEN /\ live' = live \ {member}
                  /\ todo' = todo \ {member}
                  /\ UNCHANGED <<pc, deferred, escaped>>
             ELSE /\ live' = live
                  /\ Raise(res)
    /\ UNCHANGED <<peer_units, is_leader, db_initialised, init_history,
                   users_created, unit_departed, s3_relation, s3_credentials,
                   layers, diagnosis, secret_state, unit_status,
                   replset_members, mongodb_hosts, propagated, event, after,
                   failed, projection, backup, stopping>>

\* lines 787-797: one turn of the loop of _add_units_from_replica_set: the
\* readiness check over a direct connection, then the addition.
add_replset_member ==
    /\ pc = "add"
    /\ \E member \in todo, ready \in BOOLEAN :
          IF ~may_add(ready)
          THEN /\ calls' = Append(calls, Call("is_ready", member, "not_ready"))
               /\ deferred' = TRUE
               /\ Goto(StatementAfter("add"), replset_members, mongodb_hosts)
               /\ UNCHANGED <<live, escaped>>
          ELSE \E res \in DriverResults :
               /\ calls' = calls \o
                     <<Call("is_ready", member,
                            IF ready THEN "ready" ELSE "not_ready"),
                       Call("add_replset_member", member, res)>>
               /\ IF res = "ok"
                  THEN /\ live' = live \cup {member}
                       /\ todo' = todo \ {member}
                       /\ UNCHANGED <<pc, deferred, escaped>>
                  ELSE /\ live' = live
                       /\ Raise(res)
    /\ UNCHANGED <<peer_units, is_leader, db_initialised, init_history,
                   users_created, unit_departed, s3_relation, s3_credentials,
                   layers, diagnosis, secret_state, unit_status,
                   replset_members, mongodb_hosts, propagated, event, after,
                   failed, projection, backup, stopping>>

\* A loop of the reconfiguration has visited all its members: control passes
\* to the next statement of lines 426-436.
next_statement ==
    /\ pc \in {"remove", "add"}
    /\ todo = {}
    /\ Goto(StatementAfter(pc), replset_members, mongodb_hosts)
    /\ UNCHANGED <<world, replset_members, mongodb_hosts, calls, propagated,
                   event, deferred, escaped, after, failed, projection, backup,
                   stopping>>

\* line 436 and lines 737-749: read the users, refresh the client relations.
_update_app_relation_data ==
    /\ pc = "propagate"
    /\ \E res \in DriverResults :
          /\ calls' = Append(calls, Call("get_users", NoHost, res))
          /\ IF res = "ok"
             THEN /\ propagated' = TRUE
                  /\ pc' = Finish(event)
                  /\ UNCHANGED <<todo, deferred, escaped>>
             ELSE /\ propagated' = propagated
                  /\ Raise(res)
    /\ UNCHANGED <<world, replset_members, mongodb_hosts, event, after, failed,
                   projection, backup, stopping>>

\* ----------------------------------------------------------- _on_update_status
\* lines 459-474
_on_update_status ==
    /\ pc = "idle"
    /\ Begin(UpdateStatus)
    /\ deferred' = FALSE
    /\ IF ~db_initialised
       THEN /\ pc' = "idle"
            /\ UNCHANGED <<unit_status, unit_departed>>
       ELSE \E ready \in BOOLEAN :
            IF ~ready
            THEN /\ unit_status' = WaitingStatus("Waiting for MongoDB to start")
                 /\ pc' = "idle"
                 /\ UNCHANGED unit_departed
            ELSE /\ unit_status' = unit_status
                 /\ IF is_leader
                    THEN _relation_changes_handler(UpdateStatus, NoUnit)
                    ELSE /\ pc' = "project"
                         /\ UNCHANGED unit_departed
    /\ UNCHANGED <<live, peer_units, is_leader, db_initialised, init_history,
                   users_created, s3_relation, s3_credentials, layers,
                   diagnosis, secret_state>>

\* lines 476-491: both statuses are read, then one of them is reported.
report_status ==
    /\ pc = "project"
    /\ \E db \in DbStatuses, status \in PbmStatuses :
          /\ mongodb_status' = db
          /\ database_status' = db
          /\ pbm_status' = status
          /\ pbm_polls' = pbm_polls + 1
          /\ unit_status' = projected_status(db, s3_relation, status)
    /\ pc' = "idle"
    /\ UNCHANGED <<live, peer_units, is_leader, db_initialised, init_history,
                   users_created, unit_departed, s3_relation, s3_credentials,
                   layers, diagnosis, secret_state, reconcile, event, deferred,
                   escaped, after, failed, backup, stopping>>

\* ------------------------------------------------ _on_s3_credential_changed
\* The s3 integrator publishes credentials in the relation, or changes them.
S3CredentialsChange ==
    /\ pc = "idle"
    /\ s3_relation
    /\ \E c \in CredentialRecords \ {s3_credentials} : s3_credentials' = c
    /\ Forget
    /\ UNCHANGED <<live, peer_units, is_leader, db_initialised, init_history,
                   users_created, unit_departed, s3_relation, unit_status,
                   layers, diagnosis, secret_state>>

\* lines 206-234: exception exc reaches the try block of
\* _configure_pbm_options.
configure_except(exc) ==
    CASE exc = "SetPBMConfigError" ->
            /\ unit_status' = BlockedStatus("couldn't configure s3 backup options.")
            /\ pc' = "idle"
            /\ UNCHANGED <<deferred, escaped>>
      [] exc \in {"ResyncError", "PBMBusyError"} ->
            /\ unit_status' = WaitingStatus("waiting to sync s3 configurations.")
            /\ deferred' = TRUE
            /\ pc' = "idle"
            /\ UNCHANGED escaped
      [] exc = "ExecError" ->
            /\ unit_status' = BlockedStatus(process_pbm_error(exc))
            /\ pc' = "idle"
            /\ UNCHANGED <<deferred, escaped>>
      [] exc = "CalledProcessError" ->
            /\ pc' = "final"
            /\ UNCHANGED <<unit_status, deferred, escaped>>
      [] OTHER ->
            /\ escaped' = exc
            /\ pc' = "idle"
            /\ UNCHANGED <<unit_status, deferred>>

\* lines 98-114: the event is deferred while the database is not
\* initialised; a missing pbm-agent service defers it too, and the
\* configuration goes on.
_on_s3_credential_changed ==
    /\ pc = "idle"
    /\ s3_relation
    /\ Begin(CredentialsChanged)
    /\ IF ~db_initialised
       THEN /\ deferred' = TRUE
            /\ pc' = "idle"
       ELSE \E service_found \in BOOLEAN :
            /\ deferred' = ~service_found
            /\ pc' = "push"
    /\ UNCHANGED world

\* What container.push can meet: the file is written, or pebble refuses
\* the path.
PushResults == {"ok", "PathError"}

\* charm.py lines 1132-1138, called on line 239: the empty config file is
\* pushed to the workload.  Nothing up to the handler catches an error of
\* the push.
push ==
    /\ pc = "push"
    /\ \E res \in PushResults :
          /\ pushed' = (res = "ok")
          /\ IF res = "ok"
             THEN /\ pc' = "set_config_file"
                  /\ UNCHANGED <<unit_status, deferred, escaped>>
             ELSE configure_except(res)
    /\ UNCHANGED <<live, peer_units, is_leader, db_initialised, init_history,
                   users_created, unit_departed, s3_relation, s3_credentials,
                   layers, diagnosis, secret_state, reconcile, event, after,
                   failed, projection, attempt, restarts, maint_seen,
                   waiting_seen, resyncs, outer_attempt, inner_attempt,
                   wait_polls, wait_error, wait_resync, pbm_cmds, cfg_todo,
                   stopping>>

\* The config file registered before it is pushed.
set_pbm_config_file_before_push ==
    /\ pc = "push"
    /\ cfg_todo' = _get_pbm_configs(s3_credentials)
    /\ \E res \in CmdResults :
          /\ pbm_cmds' = Append(pbm_cmds, Cmd("config --file", <<>>, res))
          /\ CASE res = "ok" ->
                     /\ pc' = "set_options"
                     /\ UNCHANGED <<unit_status, deferred, escaped>>
               [] res = "ExecError" ->
                     /\ unit_status' = BlockedStatus(process_pbm_error(res))
                     /\ pc' = "set_options"
                     /\ UNCHANGED <<deferred, escaped>>
               [] OTHER -> configure_except(res)
    /\ UNCHANGED <<live, peer_units, is_leader, db_initialised, init_history,
                   users_created, unit_departed, s3_relation, s3_credentials,
                   layers, diagnosis, secret_state, reconcile, event, after,
                   failed, projection, attempt, restarts, maint_seen,
                   waiting_seen, resyncs, outer_attempt, inner_attempt,
                   wait_polls, wait_error, wait_resync, pushed, stopping>>

\* charm.py lines 1139-1150: the pushed file is registered with
\* "config --file"; an ExecError of the command is reported as a blocked
\* status and the options are set all the same.
set_pbm_config_file ==
    /\ pc = "set_config_file"
    /\ cfg_todo' = _get_pbm_configs(s3_credentials)
    /\ \E res \in CmdResults :
          /\ pbm_cmds' = Append(pbm_cmds, Cmd("config --file", <<>>, res))
          /\ CASE res = "ok" ->
                     /\ pc' = "set_options"
                     /\ UNCHANGED <<unit_status, deferred, escaped>>
               [] res = "ExecError" ->
                     /\ unit_status' = BlockedStatus(process_pbm_error(res))
                     /\ pc' = "set_options"
                     /\ UNCHANGED <<deferred, escaped>>
               [] OTHER -> configure_except(res)
    /\ UNCHANGED <<live, peer_units, is_leader, db_initialised, init_history,
                   users_created, unit_departed, s3_relation, s3_credentials,
                   layers, diagnosis, secret_state, reconcile, event, after,
                   failed, projection, attempt, restarts, maint_seen,
                   waiting_seen, resyncs, outer_attempt, inner_attempt,
                   wait_polls, wait_error, wait_resync, pushed, stopping>>

\* line 246 catching ExecError only.
set_failed_on_exec_error_only(res) == res = "ExecError"

\* line 246: a "config --set" that raised CalledProcessError or ExecError.
set_failed(res) == res # "ok"

\* lines 241-252: one turn of the loop that sets the options one at a time.
_set_config_options ==
    /\ pc = "set_options"
    /\ cfg_todo # <<>>
    /\ \E res \in CmdResults :
          /\ pbm_cmds' = Append(pbm_cmds, Cmd("config --set", Head(cfg_todo), res))
          /\ IF ~set_failed(res)
             THEN /\ cfg_todo' = Tail(cfg_todo)
                  /\ UNCHANGED <<pc, unit_status, deferred, escaped>>
             ELSE /\ cfg_todo' = <<>>
                  /\ configure_except("SetPBMConfigError")
    /\ UNCHANGED <<live, peer_units, is_leader, db_initialised, init_history,
                   users_created, unit_departed, s3_relation, s3_credentials,
                   layers, diagnosis, secret_state, reconcile, event, after,
                   failed, projection, attempt, restarts, maint_seen,
                   waiting_seen, resyncs, outer_attempt, inner_attempt,
                   wait_polls, wait_error, wait_resync, pushed, stopping>>

\* line 268: every option is set; the service is started and the pre-check
\* loop is entered.
start_backup_service ==
    /\ pc = "set_options"
    /\ cfg_todo = <<>>
    /\ pc' = "precheck"
    /\ UNCHANGED <<world, reconcile, event, deferred, escaped, after, failed,
                   projection, backup, stopping>>

\* lines 272-287: one attempt of the pre-check loop.
_resync_config_options ==
    /\ pc = "precheck"
    /\ attempt' = attempt + 1
    /\ pbm_polls' = pbm_polls + 1
    /\ \E status \in PbmStatuses :
              /\ maint_seen' = IF status.kind = "maintenance"
                               THEN maint_seen + 1 ELSE maint_seen
              /\ waiting_seen' = IF status.kind = "waiting"
                                 THEN waiting_seen + 1 ELSE waiting_seen
              /\ restarts' = IF precheck(status).restart
                             THEN restarts + 1 ELSE restarts
              /\ IF precheck(status).busy
                 THEN IF stop_after_attempt(PreCheckAttempts, attempt + 1)
                      THEN configure_except("PBMBusyError")
                      ELSE UNCHANGED <<pc, unit_status, deferred, escaped>>
                 ELSE /\ pc' = "resync"
                      /\ UNCHANGED <<unit_status, deferred, escaped>>
    /\ UNCHANGED <<live, peer_units, is_leader, db_initialised, init_history,
                   users_created, unit_departed, s3_relation, s3_credentials,
                   layers, diagnosis, secret_state, reconcile, event, after,
                   failed, mongodb_status, database_status, pbm_status,
                   resyncs, outer_attempt, inner_attempt, wait_polls,
                   wait_error, wait_resync, pbm_cmds, pushed, cfg_todo,
                   stopping>>

\* line 291: the resync is asked for.
force_resync ==
    /\ pc = "resync"
    /\ resyncs' = resyncs + 1
    /\ \E res \in CmdResults :
          /\ pbm_cmds' = Append(pbm_cmds, Cmd("config --force-resync", <<>>, res))
          /\ IF res = "ok"
             THEN /\ pc' = "wait"
                  /\ outer_attempt' = 1
                  /\ UNCHANGED <<unit_status, deferred, escaped>>
             ELSE /\ configure_except(res)
                  /\ UNCHANGED outer_attempt
    /\ UNCHANGED <<live, peer_units, is_leader, db_initialised, init_history,
                   users_created, unit_departed, s3_relation, s3_credentials,
                   layers, diagnosis, secret_state, reconcile, event, after,
                   failed, projection, attempt, restarts, maint_seen,
                   waiting_seen, inner_attempt, wait_polls, wait_error,
                   wait_resync, pushed, cfg_todo, stopping>>

\* The decorator retrying nothing.
retry_if_no_exception(exc) == FALSE

\* line 298: retry=retry_if_exception_type(ResyncError), the exceptions the
\* decorator of _wait_pbm_status retries.
retry_if_exception_type(exc) == exc = "ResyncError"

\* lines 333-334 without the except clause inside the attempt.
caught_in_attempt_never(out) == FALSE

\* lines 333-334: the ExecError of the status poll is caught inside the
\* attempt, which so ends normally.
caught_in_attempt(out) == out = "ExecError"

\* lines 295-334: one attempt of the inner loop of _wait_pbm_status.  An
\* ExecError is caught inside the attempt, which then ends the loop; any other
\* exception is retried by the inner loop, and once that gives up a
\* ResyncError is retried by the decorator.
_wait_pbm_status ==
    /\ pc = "wait"
    /\ wait_polls' = wait_polls + 1
    /\ \E out \in WaitOutcomes :
        /\ wait_error' = (out = "ExecError")
        /\ wait_resync' = (out = "resync")
        /\
          CASE out = "idle" ->
                  /\ pc' = "final"
                  /\ inner_attempt' = inner_attempt + 1
                  /\ UNCHANGED <<unit_status, deferred, escaped, outer_attempt,
                                 stopping>>
            [] caught_in_attempt(out) ->
                  /\ unit_status' = BlockedStatus(process_pbm_error(out))
                  /\ pc' = "final"
                  /\ inner_attempt' = inner_attempt + 1
                  /\ UNCHANGED <<deferred, escaped, outer_attempt, stopping>>
            [] OTHER ->
                  LET exc == IF out = "resync" THEN "ResyncError" ELSE out
                      waiting == WaitingStatus("waiting to sync s3 configurations.")
                      seen == IF out = "resync" THEN waiting ELSE unit_status
                  IN  IF ~stop_after_attempt(ConfigErrorAttempts, inner_attempt + 1)
                      THEN /\ inner_attempt' = inner_attempt + 1
                           /\ unit_status' = seen
                           /\ UNCHANGED <<pc, deferred, escaped, outer_attempt,
                                          stopping>>
                      ELSE IF /\ retry_if_exception_type(exc)
                              /\ ~stop_after_attempt(ResyncAttempts, outer_attempt)
                           THEN /\ outer_attempt' = outer_attempt + 1
                                /\ inner_attempt' = 0
                                /\ unit_status' = seen
                                /\ UNCHANGED <<pc, deferred, escaped>>
                           ELSE /\ inner_attempt' = inner_attempt + 1
                                /\ configure_except(exc)
                                /\ UNCHANGED outer_attempt
    /\ UNCHANGED <<live, peer_units, is_leader, db_initialised, init_history,
                   users_created, unit_departed, s3_relation, s3_credentials,
                   layers, diagnosis, secret_state, reconcile, event, after,
                   failed, projection, attempt, restarts, maint_seen,
                   waiting_seen, resyncs, pbm_cmds, pushed, cfg_todo,
                   stopping>>

\* line 234: the handler ends by reporting the backup status.
_configure_pbm_options ==
    /\ pc = "final"
    /\ \E status \in PbmStatuses : unit_status' = status
    /\ pbm_polls' = pbm_polls + 1
    /\ wait_error' = FALSE
    /\ wait_resync' = FALSE
    /\ pc' = "idle"
    /\ UNCHANGED <<live, peer_units, is_leader, db_initialised, init_history,
                   users_created, unit_departed, s3_relation, s3_credentials,
                   layers, diagnosis, secret_state, reconcile, event, deferred,
                   escaped, after, failed, mongodb_status, database_status,
                   pbm_status, attempt, restarts, maint_seen, waiting_seen,
                   resyncs, outer_attempt, inner_attempt, wait_polls, pbm_cmds,
                   pushed, cfg_todo, stopping>>

\* ------------------------------------------------------- the backup actions
\* An operator runs one of the backup actions on this unit, with the
\* database in any of its statuses.
dispatch_action ==
    /\ pc = "idle"
    /\ \E ev \in ActionEvents : Arrive(ev)
    /\ Unpolled
    /\ database_status' \in DbStatuses
    /\ calls' = <<>>
    /\ escaped' = "none"
    /\ deferred' = FALSE
    /\ pc' = "action"
    /\ UNCHANGED world

\* The body of an action handler: the event fails on the message of the
\* checks, or the status is polled, reported as the unit status, and decides.
action_body(message, admission) ==
    /\ pc' = "idle"
    /\ IF message # ""
       THEN /\ failed' = message
            /\ UNCHANGED <<deferred, unit_status, projection>>
       ELSE \E status \in PbmStatuses :
            /\ pbm_status' = status
            /\ pbm_polls' = pbm_polls + 1
            /\ unit_status' = status
            /\ failed' = admission[status].fail
            /\ deferred' = admission[status].defer
            /\ UNCHANGED <<mongodb_status, database_status>>
    /\ UNCHANGED <<live, peer_units, is_leader, db_initialised, init_history,
                   users_created, unit_departed, s3_relation, s3_credentials,
                   layers, diagnosis, secret_state, reconcile, event, escaped,
                   after, backup, stopping>>

\* lines 116-146
_on_create_backup_action ==
    /\ pc = "action"
    /\ event.type = "create_backup_action"
    /\ action_body(create_backup_precheck(s3_relation, is_leader),
                   [status \in PbmStatuses |-> create_backup_admission(status)])

\* lines 148-167
_on_list_backups_action ==
    /\ pc = "action"
    /\ event.type = "list_backups_action"
    /\ action_body(list_backups_precheck(s3_relation, is_leader),
                   [status \in PbmStatuses |-> list_backups_admission(status)])

\* lines 169-201
_on_restore_action ==
    /\ pc = "action"
    /\ event.type = "restore_action"
    /\ action_body(restore_precheck(s3_relation, is_leader, event.backup_id),
                   [status \in PbmStatuses |-> restore_admission(status)])

\* ---------------------------------------------------- the secret operations
\* Everything the secret operations leave alone.
charm_state == <<live, peer_units, is_leader, db_initialised, init_history,
                 users_created,
                 unit_departed, s3_relation, unit_status, layers,
                 s3_credentials, diagnosis,
                 reconcile, handler, projection, backup, stopping>>

\* line 124: a new charm object is built for every event, with empty caches.
charm_init ==
    /\ secrets # <<>>
    /\ secrets' = <<>>
    /\ secret_op' = NoSecretOp
    /\ UNCHANGED <<has_secrets, secret_content, peer_data_keys, tombstoned,
                   charm_state>>

\* lines 825-829: model.get_secret() is called when the peer data names a
\* secret that this charm object has not fetched yet, and may not find it.
GetSecretResults(scope) ==
    IF /\ has_secrets
       /\ scope \in DOMAIN secret_content
       /\ scope \notin DOMAIN secrets
    THEN BOOLEAN
    ELSE {TRUE}

\* lines 831-836: self.secrets once the call has fetched the secret, if it
\* has.
Fetched(got, scope) ==
    IF got.entry.cached THEN Put(secrets, scope, got.entry.cache) ELSE secrets

\* lines 856-865: get_secret(scope, key); secret_op.result is its value.
get_secret ==
    \E scope \in Scopes, key \in SecretKeys :
      \E found \in GetSecretResults(scope) :
        LET got == _juju_secrets_get(secrets, secret_content, scope, found)
        IN  /\ IF has_secrets
               THEN /\ secrets' = Fetched(got, scope)
                    /\ secret_op' =
                          SecretOp("get_secret", scope, key, "",
                                   _juju_secret_get_key(got, key), <<>>)
               ELSE /\ secrets' = secrets
                    /\ secret_op' =
                          SecretOp("get_secret", scope, key, "",
                                   Get(peer_data_keys[scope], key), <<>>)
            /\ UNCHANGED <<has_secrets, secret_content, peer_data_keys,
                           tombstoned, charm_state>>

\* lines 867-905, called by op; found is whether model.get_secret() finds
\* the secret, write is the outcome of set_content(), added is whether
\* add_secret() returned a secret.
_juju_secret_set(op, scope, key, value, found) ==
    LET got == _juju_secrets_get(secrets, secret_content, scope, found)
    IN  /\ IF got.entry.cached
           THEN IF already_set(got.entry.cache, key, value)
                THEN /\ secrets' = Fetched(got, scope)
                     /\ secret_op' = SecretOp(op, scope, key, value,
                                              "defined already", <<>>)
                     /\ UNCHANGED secret_content
                ELSE \E write \in WriteResults :
                     LET secret_cache == Put(got.entry.cache, key, value)
                     IN  /\ secrets' = Put(secrets, scope, secret_cache)
                         /\ secret_content' =
                               IF write = "ok"
                               THEN Put(secret_content, scope, secret_cache)
                               ELSE secret_content
                         /\ secret_op' =
                               SecretOp(op, scope, key, value,
                                        IF write = "ok" THEN "set"
                                        ELSE "logged",
                                        <<"set_content">>)
           ELSE \E added \in BOOLEAN :
                IF added
                THEN /\ secrets' = Put(secrets, scope, Put(EmptyDict, key, value))
                     /\ secret_content' =
                           Put(secret_content, scope, Put(EmptyDict, key, value))
                     /\ secret_op' =
                           SecretOp(op, scope, key, value, "set",
                                    <<"add_secret", "peer_data.update">>)
                ELSE /\ secret_op' =
                           SecretOp(op, scope, key, value,
                                    "SecretNotAddedError", <<"add_secret">>)
                     /\ UNCHANGED <<secrets, secret_content>>
        /\ UNCHANGED <<has_secrets, peer_data_keys>>

\* lines 923-939, called by op with value (set_secret passes on its empty
\* value); the OSError of set_content() leaves the method.
_juju_secret_remove(op, scope, key, value, found) ==
    LET got == _juju_secrets_get(secrets, secret_content, scope, found)
    IN  /\ IF ~got.entry.cached
           THEN /\ secret_op' = SecretOp(op, scope, key, value,
                                         "no secrets are available", <<>>)
                /\ UNCHANGED <<secrets, secret_content>>
           ELSE IF key \notin DOMAIN got.entry.cache
           THEN /\ secrets' = Fetched(got, scope)
                /\ secret_op' = SecretOp(op, scope, key, value,
                                         "no secret", <<>>)
                /\ UNCHANGED secret_content
           ELSE \E write \in WriteResults :
                LET secret_cache ==
                        Put(got.entry.cache, key, SECRET_DELETED_LABEL)
                IN  /\ secrets' = Put(secrets, scope, secret_cache)
                    /\ secret_content' =
                          IF write = "ok"
                          THEN Put(secret_content, scope, secret_cache)
                          ELSE secret_content
                    /\ secret_op' =
                          SecretOp(op, scope, key, value,
                                   IF write = "ok" THEN "removed"
                                   ELSE "OSError",
                                   <<"set_content">>)
        /\ UNCHANGED <<has_secrets, peer_data_keys>>

\* lines 941-948, called by op.  Without Juju secrets the key leaves the
\* peer data (line 948).
remove_secret_body(op, scope, key, value, found) ==
    IF has_secrets
    THEN _juju_secret_remove(op, scope, key, value, found)
    ELSE /\ peer_data_keys' =
               [peer_data_keys EXCEPT ![scope] = Del(@, key)]
         /\ secret_op' =
               SecretOp(op, scope, key, value,
                        IF key \in DOMAIN peer_data_keys[scope]
                        THEN "removed" ELSE "no secret",
                        <<"del peer_data">>)
         /\ UNCHANGED <<has_secrets, secret_content, secrets>>

\* The pairs removed and not set again, after a call that ended as op tells:
\* a removal that was written adds its pair, a set_secret of a value takes
\* its pair away.
TombstonedAfter(op) ==
    IF op.result = "removed"
    THEN tombstoned \cup {<<op.scope, op.key>>}
    ELSE IF op.op = "set_secret" /\ op.value # ""
    THEN tombstoned \ {<<op.scope, op.key>>}
    ELSE tombstoned

\* lines 941-948: remove_secret(scope, key).
remove_secret ==
    /\ \E scope \in Scopes, key \in SecretKeys :
          \E found \in GetSecretResults(scope) :
              remove_secret_body("remove_secret", scope, key, "", found)
    /\ tombstoned' = TombstonedAfter(secret_op')
    /\ UNCHANGED charm_state

\* lines 907-921, called by op.
set_secret_body(op, scope, key, value, found) ==
    IF value = ""
    THEN remove_secret_body(op, scope, key, value, found)
    ELSE IF has_secrets
    THEN _juju_secret_set(op, scope, key, value, found)
    ELSE /\ peer_data_keys' =
               [peer_data_keys EXCEPT ![scope] = Put(@, key, value)]
         /\ secret_op' =
               SecretOp(op, scope, key, value, "set", <<"peer_data.update">>)
         /\ UNCHANGED <<has_secrets, secret_content, secrets>>

\* lines 907-921: set_secret(scope, key, value).
set_secret ==
    /\ \E scope \in Scopes, key \in SecretKeys, value \in SecretInputs :
          \E found \in GetSecretResults(scope) :
              set_secret_body("set_secret", scope, key, value, found)
    /\ tombstoned' = TombstonedAfter(secret_op')
    /\ UNCHANGED charm_state

\* ---------------------------------------------------------- _on_set_password
\* users.py: the key of a user's password among the secrets of the app scope.
get_password_key_name_for_user(username) == username \o "-password"

\* A set-password action: its username parameter (the operator user when
\* left out, line 516) and the new password of line 521.
SetPassword(username, password) ==
    [type |-> "set_password_action", unit |-> NoUnit,
     username |-> username, password |-> password]
PasswordEvents ==
    {SetPassword(u, p) : u \in CharmUsers \cup {"other"}, p \in Passwords}

\* An operator runs set-password on this unit: a charm object is built for
\* the event, with empty secret caches (line 124).
dispatch_password ==
    /\ pc = "idle"
    /\ \E ev \in PasswordEvents : Begin(ev)
    /\ deferred' = FALSE
    /\ pc' = "set_password"
    /\ secrets' = <<>>
    /\ secret_op' = NoSecretOp
    /\ UNCHANGED <<live, peer_units, is_leader, db_initialised, init_history,
                   users_created, unit_departed, s3_relation, unit_status,
                   layers, diagnosis, s3_credentials, has_secrets,
                   secret_content, peer_data_keys, tombstoned>>

\* lines 856-865: the value get_secret(scope, key) returns in this state.
secret_value(scope, key, found) ==
    IF has_secrets
    THEN _juju_secret_get_key(
             _juju_secrets_get(secrets, secret_content, scope, found), key)
    ELSE Get(peer_data_keys[scope], key)

\* The driver call made whatever the role of the unit.
password_precheck_any_unit(leader, username) ==
    IF username \notin CharmUsers
    THEN "The action can be run only for users used by the charm"
    ELSE ""

\* lines 511-519 and 702-711: the checks set-password makes before it reads
\* the stored password; the message of the first one that fails.
password_precheck(leader, username) ==
    IF ~leader
    THEN "The action can be run only on leader unit."
    ELSE IF username \notin CharmUsers
         THEN "The action can be run only for users used by the charm"
         ELSE ""

\* The driver errors of set-password deferring the action.
password_failure_deferring(result) == Defer

\* lines 533-540: what set-password does with an error of the driver call.
password_failure(result) ==
    IF result = "NotReadyError"
    THEN Fail("Failed to change the password: Not all members healthy or finished initial sync.")
    ELSE Fail("Failed changing the password: PyMongoError")

\* lines 508-540: the checks, the comparison with the stored password, the
\* connection as the operator user (MissingSecretError when its password
\* cannot be read, lines 685-689) and the driver call.
_on_set_password ==
    /\ pc = "set_password"
    /\ LET message == password_precheck(is_leader, event.username)
           key == get_password_key_name_for_user(event.username)
           operator_key == get_password_key_name_for_user("operator")
       IN  IF message # ""
           THEN /\ failed' = message
                /\ pc' = "idle"
                /\ UNCHANGED <<secrets, calls, deferred, escaped>>
           ELSE \E found \in GetSecretResults("app") :
                /\ secrets' =
                      IF has_secrets
                      THEN Fetched(_juju_secrets_get(secrets, secret_content,
                                                     "app", found), "app")
                      ELSE secrets
                /\ IF event.password = secret_value("app", key, found)
                   THEN /\ pc' = "idle"
                        /\ UNCHANGED <<calls, failed, deferred, escaped>>
                   ELSE IF secret_value("app", operator_key, found) = Missing
                   THEN /\ escaped' = "MissingSecretError"
                        /\ pc' = "idle"
                        /\ UNCHANGED <<calls, failed, deferred>>
                   ELSE \E result \in DriverResults :
                        /\ calls' = <<Call("set_user_password",
                                           event.username, result)>>
                        /\ escaped' = escaped
                        /\ IF result = "ok"
                           THEN /\ pc' = "store_password"
                                /\ UNCHANGED <<failed, deferred>>
                           ELSE /\ pc' = "idle"
                                /\ failed' = password_failure(result).fail
                                /\ deferred' = password_failure(result).defer
    /\ UNCHANGED <<live, peer_units, is_leader, db_initialised, init_history,
                   users_created, unit_departed, s3_relation, unit_status,
                   layers, diagnosis, s3_credentials, has_secrets,
                   secret_content, peer_data_keys, secret_op, tombstoned,
                   replset_members, mongodb_hosts, todo, propagated, event,
                   after, projection, backup, stopping>>

\* lines 1051-1078 and 1080-1103: the layer of the service after
\* _connect_mongodb_exporter or _connect_pbm_agent, for password the value
\* get_secret returns for the user of the service.
connect(service, can_connect, initialised, password, layer) ==
    IF ~can_connect \/ ~initialised \/ password = Missing
    THEN layer
    ELSE password

\* lines 546-550: the service set-password reconnects for the user.
ServiceOf(username) ==
    CASE username = "backup" -> "pbm-agent"
      [] username = "monitor" -> "mongodb_exporter"
      [] OTHER -> "none"

\* lines 542-554: the new password is stored (SecretNotAddedError leaves
\* the handler), the service of the user is given the new URI.
store_password ==
    /\ pc = "store_password"
    /\ LET key == get_password_key_name_for_user(event.username)
           service == ServiceOf(event.username)
       IN  \E found \in GetSecretResults("app"), can_connect \in BOOLEAN :
             /\ set_secret_body("set_secret", "app", key, event.password,
                                found)
             /\ tombstoned' = TombstonedAfter(secret_op')
             /\ IF secret_op'.result = "SecretNotAddedError"
                THEN /\ escaped' = "SecretNotAddedError"
                     /\ layers' = layers
                ELSE /\ escaped' = escaped
                     /\ layers' =
                           IF service = "none"
                           THEN layers
                           ELSE [layers EXCEPT ![service] =
                                   connect(service, can_connect,
                                           db_initialised,
                                           IF has_secrets
                                           THEN _juju_secret_get_key(
                                                  _juju_secrets_get(
                                                    secrets', secret_content',
                                                    "app", TRUE), key)
                                           ELSE Get(peer_data_keys'["app"],
                                                    key),
                                           @)]
    /\ pc' = "idle"
    /\ UNCHANGED <<live, peer_units, is_leader, db_initialised, init_history,
                   users_created, unit_departed, s3_relation, unit_status,
                   s3_credentials, diagnosis, reconcile, event, deferred,
                   after, failed, projection, backup, stopping>>

\* ----------------------------------------------------------- specifications
\* The membership reconciler in its whole environment; the s3 relation is
\* left as it is (SpecStatus moves it).
Next ==
    \/ PeersChange
    \/ LeaderChange
    \/ ClusterDrift
    \/ _on_start
    \/ on_reconcile_event
    \/ get_replset_members
    \/ remove_replset_member
    \/ add_replset_member
    \/ next_statement
    \/ _update_app_relation_data
    \/ _on_update_status
    \/ report_status

Spec == Init /\ [][Next]_vars

\* What sets off a reconciliation pass: an update-status tick, or a peer
\* relation event or leader-elected, delivered or delivered again after a
\* deferral.  A relation-departed event is one of a unit the inventory has
\* lost.
Trigger ==
    \/ _on_update_status
    \/ /\ on_reconcile_event
       /\ event'.type = "relation_departed" => event'.unit \notin peer_units

\* The reconciler under the scheduling of the framework: a handler that has
\* begun runs to its end, and triggers keep being delivered.
Scheduling ==
    /\ WF_vars(get_replset_members)
    /\ WF_vars(remove_replset_member)
    /\ WF_vars(add_replset_member)
    /\ WF_vars(next_statement)
    /\ WF_vars(_update_app_relation_data)
    /\ WF_vars(report_status)
    /\ SF_vars(Trigger)

SpecConverge == Init /\ [][Next]_vars /\ Scheduling

\* The status projector: leadership and the s3 relation move, the inventory
\* and the cluster are left alone.
NextStatus ==
    \/ LeaderChange
    \/ S3RelationChange
    \/ _on_start
    \/ _on_update_status
    \/ get_replset_members
    \/ report_status

SpecStatus == Init /\ [][NextStatus]_vars

\* The backup configurator: leadership, the s3 relation and its credentials
\* move; the start handler initialises the database; the credentials-changed
\* handler runs.
NextBackup ==
    \/ LeaderChange
    \/ S3RelationChange
    \/ S3CredentialsChange
    \/ _on_start
    \/ _on_s3_credential_changed
    \/ push
    \/ set_pbm_config_file
    \/ _set_config_options
    \/ start_backup_service
    \/ _resync_config_options
    \/ force_resync
    \/ _wait_pbm_status
    \/ _configure_pbm_options

SpecBackup == Init /\ [][NextBackup]_vars

\* The backup actions: leadership and the s3 relation move, the three actions
\* are run.
NextActions ==
    \/ LeaderChange
    \/ S3RelationChange
    \/ dispatch_action
    \/ _on_create_backup_action
    \/ _on_list_backups_action
    \/ _on_restore_action

SpecActions == Init /\ [][NextActions]_vars

\* The secret operations of the handlers, over the events of a unit.
NextSecrets ==
    \/ charm_init
    \/ get_secret
    \/ set_secret
    \/ remove_secret

SpecSecrets == InitSecrets /\ [][NextSecrets]_vars

\* The set-password action: leadership moves, the start handler initialises
\* the database, the action is run.
NextPassword ==
    \/ LeaderChange
    \/ _on_start
    \/ dispatch_password
    \/ _on_set_password
    \/ store_password

SpecPassword == InitPassword /\ [][NextPassword]_vars

\* re.search(REMAPPING_PATTERN, <error text>): the pattern of line 63 is
\* matched on the error text of the tool.
search ==
    /\ pc = "idle"
    /\ remapping = NotSearched
    /\ remapping' = REMAPPING_PATTERN(error_text)
    /\ UNCHANGED <<live, peer_units, is_leader, db_initialised, init_history,
                   users_created, unit_departed, s3_relation, unit_status,
                   layers, s3_credentials, secret_state, error_text, reconcile,
                   handler, projection, backup, stopping>>

\* The diagnosis of an error text.
NextRemap == search

SpecRemap == InitRemap /\ [][NextRemap]_vars

\* The unit before its stop event: the marker of the departure was never
\* set (line 400 did not run), is set, or was reset by an earlier stop
\* (line 457); the unit is a member of the replica set or not.
InitStop ==
    /\ live \in SUBSET Hosts
    /\ db_initialised = (live # {})
    /\ users_created = IF live # {} THEN CharmUsers ELSE {}
    /\ unit_departed \in {"absent", "True", ""}
    /\ InitUnit
    /\ SecretsInit(TRUE)
    /\ NoDiagnosis

\* ------------------------------------------------------------------- _on_stop
UNIT_REMOVAL_TIMEOUT == 1000

\* line 446: the unit blocks in its stop handler when it is marked departed.
blocks_on_stop(marker) == marker = "True"

\* lines 1110-1120: the answer of one poll, res the outcome of
\* get_replset_members: an error of the driver is logged and answered False.
member_answer(res, members) ==
    res = "ok" /\ get_hostname_for_unit(Self) \in members

\* line 450: the test of the loop.
polls_on(in_set, left) == in_set /\ left > 0

\* line 455: the test that guards the raise, on the decremented timeout.
timeout_exceeded(left) == left < 0

\* lines 445-449: the stop event is dispatched to this unit.
_on_stop ==
    /\ pc = "idle"
    /\ Arrive(StopEvent)
    /\ Unfollowed
    /\ calls' = <<>>
    /\ escaped' = "none"
    /\ deferred' = FALSE
    /\ stop_polls' = 0
    /\ IF blocks_on_stop(unit_departed)
       THEN /\ is_in_replica_set' = TRUE
            /\ timeout' = UNIT_REMOVAL_TIMEOUT
            /\ pc' = "stop_loop"
       ELSE /\ is_in_replica_set' = FALSE
            /\ timeout' = 0
            /\ pc' = "idle"
    /\ UNCHANGED world

\* lines 450-455 and 1110-1120: one turn of the loop: the poll, the sleep,
\* the decrement and the test of the timeout.
is_unit_in_replica_set ==
    /\ pc = "stop_loop"
    /\ polls_on(is_in_replica_set, timeout)
    /\ \E res \in DriverResults :
          /\ calls' = <<Call("get_replset_members", NoHost, res)>>
          /\ is_in_replica_set' = member_answer(res, live)
    /\ stop_polls' = stop_polls + 1
    /\ timeout' = timeout - 1
    /\ IF timeout_exceeded(timeout - 1)
       THEN escaped' = "Exception" /\ pc' = "idle"
       ELSE UNCHANGED <<escaped, pc>>
    /\ UNCHANGED <<world, replset_members, mongodb_hosts, todo, propagated,
                   event, deferred, after, failed, projection, backup>>

\* lines 456-457: the loop is over, the marker is reset.
release_on_stop ==
    /\ pc = "stop_loop"
    /\ ~polls_on(is_in_replica_set, timeout)
    /\ unit_departed' = ""
    /\ pc' = "idle"
    /\ UNCHANGED <<live, peer_units, is_leader, db_initialised, init_history,
                   users_created, s3_relation, unit_status, layers,
                   s3_credentials, secret_state, diagnosis, reconcile, event,
                   deferred, escaped, after, failed, projection, backup,
                   stopping>>

\* While the stop handler sleeps (line 452) the leader, handling the
\* departure of this unit, removes it from the replica set.
MemberRemoved ==
    /\ pc = "stop_loop"
    /\ get_hostname_for_unit(Self) \in live
    /\ live' = live \ {get_hostname_for_unit(Self)}
    /\ UNCHANGED <<peer_units, is_leader, db_initialised, init_history,
                   users_created, unit_departed, s3_relation, unit_status,
                   layers, s3_credentials, secret_state, diagnosis,
                   reconcile, handler, projection, backup, stopping>>

\* The stop handler: the unit is stopped, with or without the marker of its
\* departure, a member of the replica set or not; while it sleeps between
\* two polls the leader may remove it.
NextStop ==
    \/ _on_stop
    \/ is_unit_in_replica_set
    \/ MemberRemoved
    \/ release_on_stop

SpecStop == InitStop /\ [][NextStop]_vars


\* ======================================================================
\* Properties of the membership reconciler
\* ======================================================================
hA == get_hostname_for_unit(UnitName(0))
hB == get_hostname_for_unit(UnitName(1))
hC == get_hostname_for_unit(UnitName(2))

\* The positions of the membership writes among the driver calls of this run.
Writes == {i \in DOMAIN calls : calls[i].op \in MembershipWrites}
Errors == {"NotReadyError", "PyMongoError"}
InPass == pc \in {"get_members", "remove", "add", "propagate"}

\* C1: within one pass no remove_replset_member call comes after an
\* add_replset_member call, and when the first member is added every host of
\* (fetched members minus inventory hosts) has already been removed.
C1_RemovalsBeforeAdditions ==
    \A i \in DOMAIN calls :
        calls[i].op = "add_replset_member" =>
            /\ \A j \in DOMAIN calls :
                  j > i => calls[j].op # "remove_replset_member"
            /\ \A h \in replset_members \ _unit_hosts(peer_units) :
                  \E j \in 1..(i - 1) :
                      calls[j] = Call("remove_replset_member", h, "ok")

\* C1 witness: inventory {A, C}, members {A, B}: B was removed, then C added.
C1_Witness ==
    /\ replset_members = {hA, hB}
    /\ _unit_hosts(peer_units) = {hA, hC}
    /\ \E i, j \in DOMAIN calls :
          /\ i < j
          /\ calls[i] = Call("remove_replset_member", hB, "ok")
          /\ calls[j] = Call("add_replset_member", hC, "ok")

\* C2 (as amended): a run that directly follows a pass which completed
\* without deferring, and whose trigger excludes the same departing unit as
\* that pass did (or that pass excluded none), issues no membership write;
\* and a pass that finds the members equal to the inventory hosts issues none.
C2_Idempotent ==
    /\ after = "same" => Writes = {}
    /\ (mongodb_hosts # {} /\ replset_members = mongodb_hosts) => Writes = {}

\* C2 witness: a second pass, right after a completed pass that wrote nothing
\* it has to repeat, has run to its end with the members still differing
\* from the inventory (the departed unit is listed and not a member).
C2_Witness ==
    /\ after = "same"
    /\ pc = "idle"
    /\ event.type = "relation_departed"
    /\ calls # <<>>
    /\ calls[1].result = "ok"
    /\ replset_members # mongodb_hosts
    /\ propagated

\* C2 as claimed: whenever a run directly follows a pass (same inventory
\* hosts, no change of the inventory or the cluster in between), it issues no
\* membership write.  Stated for the case most favourable to the claim: the
\* earlier pass met no error and no unready host and completed.
C2_Original == after \in {"same", "other"} => Writes = {}

\* C3: in a pass triggered by relation-departed for unit B, no
\* add_replset_member(hostname(B)) is issued.
C3_DepartingNotAdded ==
    event.type = "relation_departed" =>
        \A i \in DOMAIN calls :
            ~(/\ calls[i].op = "add_replset_member"
              /\ calls[i].host = get_hostname_for_unit(event.unit))

\* C3 witness: the departed unit B is still in the inventory and not a
\* member; the pass added another host and ended without adding B.
C3_Witness ==
    /\ event = [type |-> "relation_departed", unit |-> UnitName(1)]
    /\ hB \in mongodb_hosts \ replset_members
    /\ pc = "idle"
    /\ propagated
    /\ \E i \in DOMAIN calls : calls[i] = Call("add_replset_member", hC, "ok")
    /\ hB \notin live

\* C4: a unit that is not the leader issues no membership write, and the
\* leader issues none while db_initialised is absent.
C4_SingleWriter == (~is_leader \/ ~db_initialised) => Writes = {}

\* C4 witness: a non-leader has handled a peer event while the members
\* differ from its inventory hosts, and wrote nothing.
C4_Witness ==
    /\ ~is_leader
    /\ db_initialised
    /\ event.type = "relation_joined"
    /\ pc = "idle"
    /\ live # {}
    /\ live # _unit_hosts(peer_units)
    /\ calls = <<>>

\* C5: every add_replset_member(h) directly follows a readiness check of h
\* that answered ready; after a check that answered not ready the event is
\* deferred and no member is added in the rest of the pass.
C5_ReadyBeforeAdd ==
    /\ \A i \in DOMAIN calls :
          calls[i].op = "add_replset_member" =>
              /\ i > 1
              /\ calls[i - 1] = Call("is_ready", calls[i].host, "ready")
    /\ \A i \in DOMAIN calls :
          (calls[i].op = "is_ready" /\ calls[i].result = "not_ready") =>
              /\ deferred
              /\ \A j \in DOMAIN calls :
                    j > i => calls[j].op # "add_replset_member"

\* C5 witness: one host was added, the next was found not ready, and the pass
\* ended with that host still missing from the replica set.
C5_Witness ==
    /\ pc = "idle"
    /\ \E i, j \in DOMAIN calls :
          /\ i < j
          /\ calls[i].op = "add_replset_member" /\ calls[i].result = "ok"
          /\ calls[j].op = "is_ready" /\ calls[j].result = "not_ready"
          /\ calls[j].host \notin live
          /\ calls[j].host \in mongodb_hosts

\* C6: a step of the pass in which a driver call raises NotReadyError or
\* PyMongoError defers the event, ends the pass (the failed call is the last
\* driver call of the run), lets no exception out and leaves the unit status.
C6_ErrorsDefer ==
    [][(InPass /\ Len(calls') > Len(calls)
          /\ calls'[Len(calls')].result \in Errors)
       => /\ deferred'
          /\ escaped' = "none"
          /\ pc' = Finish(event)
          /\ unit_status' = unit_status
          /\ \A i \in DOMAIN calls' :
                calls'[i].result \in Errors => i = Len(calls')]_vars

\* C6 witness: a member was removed, the next driver call raised
\* PyMongoError, and the handler has returned with the event deferred.
C6_Witness ==
    /\ pc = "idle"
    /\ deferred
    /\ escaped = "none"
    /\ Len(calls) > 2
    /\ calls[Len(calls)].result = "PyMongoError"
    /\ calls[Len(calls)].op = "add_replset_member"
    /\ \E i \in DOMAIN calls : calls[i] = Call("remove_replset_member", hB, "ok")

\* ======================================================================
\* Properties of the status projection
\* ======================================================================
\* An update-status run has reported a status (lines 478-491 were reached).
Reported == event = UpdateStatus /\ pc = "idle" /\ mongodb_status # NoStatus

\* C7: the reported status is the database status when that is not active,
\* or there is no s3 relation, or the backup status is active; it is the
\* backup status when the database status is active, the relation exists and
\* the backup status is not active.
C7_StatusProjection ==
    Reported =>
        /\ (\/ mongodb_status.kind # "active"
            \/ ~s3_relation
            \/ pbm_status.kind = "active") => unit_status = mongodb_status
        /\ (/\ mongodb_status.kind = "active"
            /\ s3_relation
            /\ pbm_status.kind # "active") => unit_status = pbm_status

\* C7 witness: database blocked, relation present, backup active: the
\* database's error is what the unit reports.
C7_Witness ==
    /\ Reported
    /\ s3_relation
    /\ mongodb_status.kind = "blocked"
    /\ pbm_status.kind = "active"
    /\ unit_status = mongodb_status

\* The case of C8: the database is active and there is no s3 relation.
ActiveNoRelation == Reported /\ mongodb_status.kind = "active" /\ ~s3_relation

\* C8 (as amended): with the database active and no s3 relation the run
\* reports the database's active status; the backup status is polled once
\* all the same and its result is not what is reported.
C8_ProjectsDbStatus ==
    ActiveNoRelation =>
        /\ unit_status = mongodb_status
        /\ unit_status.kind = "active"
        /\ pbm_polls = 1

\* C8 witness: the poll answered with a status that is not active, and the
\* unit reports the database's active status.
C8_Witness ==
    /\ ActiveNoRelation
    /\ pbm_status.kind = "waiting"
    /\ pbm_polls = 1
    /\ unit_status = ActiveStatus("Replica set primary")

\* C8 as claimed: the run reports active and makes no backup status poll.
C8_Original ==
    ActiveNoRelation => (unit_status.kind = "active" /\ pbm_polls = 0)

\* ======================================================================
\* Properties of the pre-check loop of the resync
\* ======================================================================
\* A credentials-changed run is in, or went through, the pre-check loop.
InBackupRun == event = CredentialsChanged /\ attempt > 0
\* Every status poll the pre-check loop has made reported a busy status.
AllBusy == InBackupRun /\ maint_seen + waiting_seen = attempt
SyncWaiting == WaitingStatus("waiting to sync s3 configurations.")

\* C9: while every poll of the pre-check loop has reported busy, no resync is
\* issued and the loop goes on until its 20th poll; the run then ends with
\* exactly 20 polls, the busy condition handled by the caller (waiting
\* status, event deferred, nothing escaping) and still no resync.
C9_BusyLoopTerminates ==
    AllBusy =>
        /\ resyncs = 0
        /\ pbm_polls = attempt
        /\ attempt <= PreCheckAttempts
        /\ pc \in {"precheck", "idle"}
        /\ pc = "precheck" <=> attempt < PreCheckAttempts
        /\ pc = "idle" =>
              /\ attempt = 20
              /\ unit_status = SyncWaiting
              /\ deferred
              /\ escaped = "none"

\* C9 witness: the run has ended after 20 busy polls of both kinds.
C9_Witness ==
    /\ AllBusy
    /\ pc = "idle"
    /\ pbm_polls = 20
    /\ maint_seen > 0
    /\ waiting_seen > 0
    /\ resyncs = 0
    /\ deferred
    /\ unit_status = SyncWaiting

\* C10 (as amended): the daemon is restarted on the attempts that observe a
\* waiting status (a resync is running, or pbm is starting) and on no other:
\* an attempt that observes maintenance raises the busy condition without a
\* restart.  With a status that is maintenance on all 20 polls there is no
\* restart before the failure; with one that is waiting on all 20 there are 20.
C10_RestartOnWaitingOnly ==
    InBackupRun =>
        /\ restarts = waiting_seen
        /\ (pc = "idle" /\ maint_seen = PreCheckAttempts) =>
              (restarts = 0 /\ deferred /\ unit_status = SyncWaiting)
        /\ (pc = "idle" /\ waiting_seen = PreCheckAttempts) =>
              (restarts = 20 /\ deferred /\ unit_status = SyncWaiting)

\* C10 witness: the status was maintenance on all 20 polls; the run failed
\* with the busy condition and the daemon was never restarted.
C10_Witness ==
    /\ InBackupRun
    /\ pc = "idle"
    /\ maint_seen = 20
    /\ attempt = 20
    /\ restarts = 0
    /\ deferred

\* C10 as claimed: every attempt that observed a busy status, maintenance or
\* waiting, restarted the daemon; 20 maintenance polls make 20 restarts.
C10_Original ==
    InBackupRun =>
        /\ restarts = maint_seen + waiting_seen
        /\ maint_seen = 20 => restarts = 20

\* ======================================================================
\* Properties of the backup actions
\* ======================================================================
LeaderOnly == "The action can be run only on leader unit."
Mutating == {"create_backup_action", "restore_action"}
\* An action handler has run to its end.
ActionDone(types) == pc = "idle" /\ event.type \in types
\* In the step now taken an action handler of one of these types runs.
ActionRuns(types) == pc = "action" /\ event.type \in types

\* C11: create-backup and restore, run on the leader with the relation
\* present (restore with a backup-id), poll the status once and then:
\* maintenance fails the action with the one-at-a-time / wait-for-finish
\* message; waiting defers it and does not fail it; blocked fails it with the
\* blocked status's message; active neither fails nor defers it.
C11_MutatingAdmission ==
    (/\ ActionDone(Mutating)
     /\ s3_relation
     /\ is_leader
     /\ event.type = "restore_action" => event.backup_id # "")
    => /\ pbm_polls = 1
       /\ pbm_status.kind = "maintenance" =>
             /\ ~deferred
             /\ failed = IF event.type = "create_backup_action"
                         THEN "Can only create one backup at a time, please wait for current backup to finish."
                         ELSE "Please wait for current backup/restore to finish."
       /\ pbm_status.kind = "waiting" => (deferred /\ failed = "")
       /\ pbm_status.kind = "blocked" =>
             /\ ~deferred
             /\ failed = (IF event.type = "create_backup_action"
                          THEN "Cannot create backup "
                          ELSE "Cannot restore backup ")
                         \o pbm_status.message \o "."
       /\ pbm_status.kind = "active" => (~deferred /\ failed = "")

\* C11 witness: a restore with a backup-id on the leader met a running
\* operation and was failed, not deferred.
C11_Witness ==
    /\ ActionDone({"restore_action"})
    /\ event.backup_id = "backup-1"
    /\ s3_relation /\ is_leader
    /\ pbm_status.kind = "maintenance"
    /\ failed = "Please wait for current backup/restore to finish."
    /\ ~deferred

\* C12: list-backups with the relation present polls the status once and
\* then: maintenance and active let it proceed (neither failed nor deferred),
\* waiting defers it, blocked fails it with the blocked status's message.
C12_ListAdmission ==
    (ActionDone({"list_backups_action"}) /\ s3_relation)
    => /\ pbm_polls = 1
       /\ pbm_status.kind \in {"maintenance", "active"} =>
             (~deferred /\ failed = "")
       /\ pbm_status.kind = "waiting" => (deferred /\ failed = "")
       /\ pbm_status.kind = "blocked" =>
             /\ ~deferred
             /\ failed = "Cannot list backups: " \o pbm_status.message \o "."

\* C12 witness: a listing went through while a backup or restore was running.
C12_Witness ==
    /\ ActionDone({"list_backups_action"})
    /\ s3_relation
    /\ pbm_status.kind = "maintenance"
    /\ unit_status.kind = "maintenance"
    /\ failed = ""
    /\ ~deferred

\* C13: an action handler that runs while the s3 relation does not exist
\* fails the action with a message, polls no status, does not defer and
\* leaves the unit status as it was.
C13_NoRelationRejects ==
    [][(ActionRuns(Mutating \cup {"list_backups_action"}) /\ ~s3_relation)
       => /\ pc' = "idle"
          /\ failed' # ""
          /\ pbm_polls' = 0
          /\ pbm_status' = NoStatus
          /\ ~deferred'
          /\ unit_status' = unit_status]_vars

\* C13 witness: a listing was rejected for the missing relation; the unit
\* still shows the blocked status an earlier action had reported.
C13_Witness ==
    /\ ActionDone({"list_backups_action"})
    /\ ~s3_relation
    /\ failed = "Relation with s3-integrator charm missing, cannot list backups."
    /\ pbm_polls = 0
    /\ ~deferred
    /\ unit_status.kind = "blocked"

\* C14: create-backup and restore run on a unit that is not the leader fail
\* the action with a message, poll no status, do not defer and leave the
\* unit status as it was; list-backups on such a unit polls the status and
\* proceeds when it is active or maintenance.
C14_LeaderOnlyMutations ==
    [][/\ (ActionRuns(Mutating) /\ ~is_leader)
          => /\ pc' = "idle"
             /\ failed' # ""
             /\ pbm_polls' = 0
             /\ ~deferred'
             /\ unit_status' = unit_status
       /\ (ActionRuns({"list_backups_action"}) /\ ~is_leader /\ s3_relation)
          => /\ pbm_polls' = 1
             /\ failed' # LeaderOnly
             /\ pbm_status'.kind \in {"maintenance", "active"} =>
                   (failed' = "" /\ ~deferred')]_vars

\* C14 witness: a create-backup on a non-leader with the relation present was
\* rejected for leadership, with no poll, while the unit showed the
\* maintenance status of an earlier listing.
C14_Witness ==
    /\ ActionDone({"create_backup_action"})
    /\ ~is_leader
    /\ s3_relation
    /\ failed = LeaderOnly
    /\ pbm_polls = 0
    /\ ~deferred
    /\ unit_status.kind = "maintenance"


\* ------------------------------------------------------- the option set
\* The longest credentials record the option set is computed for below.
MaxFields == 2
\* The fields of a credentials record: those of the translation table and
\* one it does not know; a record (a dictionary) holds a field once.
FieldNames == DOMAIN S3_PBM_OPTION_MAP \cup {"tls-ca-chain"}
FieldItems == {Item(name, value) : name \in FieldNames, value \in {"x", "y"}}
OptionRecords ==
    {record \in UNION {[1..n -> FieldItems] : n \in 0..MaxFields} :
        \A i, j \in DOMAIN record :
            record[i].option = record[j].option => i = j}
Range(seq) == {seq[i] : i \in DOMAIN seq}

\* The option set of every record: storage.type=s3, the mapped option of
\* every field of the table, and nothing else; no key twice.
OptionSetOfRecord ==
    \A record \in OptionRecords \cup CredentialRecords :
        LET configs == _get_pbm_configs(record)
            mapped == {Item(S3_PBM_OPTION_MAP[c.option], c.value) :
                          c \in {d \in Range(record) :
                                    d.option \in DOMAIN S3_PBM_OPTION_MAP}}
        IN  /\ Range(configs) = {Item("storage.type", "s3")} \cup mapped
            /\ Cardinality(Range(configs)) = Len(configs)
            /\ \A i, j \in DOMAIN configs :
                   configs[i].option = configs[j].option => i = j

\* The arguments of the "config --set" calls of this run, in their order.
SetCalls ==
    LET sets == SelectSeq(pbm_cmds, LAMBDA c : c.cmd = "config --set")
    IN  [i \in DOMAIN sets |-> sets[i].arg]
\* The run has applied every option: _set_config_options returned.
OptionsApplied ==
    event = CredentialsChanged /\ pc \in {"precheck", "resync", "wait"}

\* C18: the option set is a function of the credentials record alone: it
\* holds storage.type=s3 and the mapped option of every field of the
\* translation table, and nothing for an unknown field; whatever records
\* were applied before, a run that applies the options issues exactly the
\* "config --set" calls of the option set of the current record, in its
\* order, so that two applications of one record issue the same calls and
\* no key of an earlier record is carried over.
C18_OptionSetOfRecordOnly ==
    /\ OptionSetOfRecord
    /\ event = CredentialsChanged /\ pc = "set_options"
       => SetCalls \o cfg_todo = _get_pbm_configs(s3_credentials)
    /\ OptionsApplied => SetCalls = _get_pbm_configs(s3_credentials)

\* A run has applied the record that holds a field the table does not know:
\* three options were set, none of them for that field.
C18_Witness ==
    /\ OptionsApplied
    /\ \E i \in DOMAIN s3_credentials :
          s3_credentials[i].option \notin DOMAIN S3_PBM_OPTION_MAP
    /\ SetCalls = <<Item("storage.type", "s3"),
                    Item("storage.s3.bucket", "b2"),
                    Item("storage.s3.endpointUrl", "e1")>>

\* ------------------------------------------------ a failing "config --set"
\* The step is a "config --set" call that raised.
SetFails ==
    /\ pc = "set_options"
    /\ pbm_cmds' # pbm_cmds
    /\ pbm_cmds'[Len(pbm_cmds')].result # "ok"
\* The run was ended by a "config --set" call that raised.
SetFailed ==
    /\ event = CredentialsChanged
    /\ pc = "idle"
    /\ pbm_cmds # <<>>
    /\ pbm_cmds[Len(pbm_cmds)].cmd = "config --set"
    /\ pbm_cmds[Len(pbm_cmds)].result # "ok"
ConfigBlocked == BlockedStatus("couldn't configure s3 backup options.")

\* The failing call ends the run: the error reaches the caller, which sets
\* the blocked status and neither defers the event nor lets anything escape;
\* nothing but the failing call is added to the commands of the run.
StopsAtFailure ==
    SetFails
    => /\ pc' = "idle"
       /\ unit_status' = ConfigBlocked
       /\ deferred' = deferred
       /\ escaped' = "none"
       /\ \E res \in CmdResults \ {"ok"} :
             pbm_cmds' = Append(pbm_cmds,
                                Cmd("config --set", Head(cfg_todo), res))

\* After such a run: the calls before the failing one all succeeded and are
\* still the first options of the record, in order (nothing undone, nothing
\* set after the failure); no resync command was issued and no pre-check
\* poll made; the status is the blocked one.
NothingAfterFailure ==
    SetFailed
    => /\ Len(SetCalls) <= Len(_get_pbm_configs(s3_credentials))
       /\ SetCalls = SubSeq(_get_pbm_configs(s3_credentials), 1, Len(SetCalls))
       /\ \A i \in 1..(Len(pbm_cmds) - 1) :
             /\ pbm_cmds[i].cmd \in {"config --file", "config --set"}
             /\ pbm_cmds[i].cmd = "config --set" => pbm_cmds[i].result = "ok"
       /\ resyncs = 0 /\ attempt = 0 /\ restarts = 0 /\ wait_polls = 0
       /\ unit_status = ConfigBlocked
       /\ escaped = "none"

\* C19: the first "config --set" that fails ends ApplyConfig with the
\* configuration error: no "config --set" is issued for the remaining keys,
\* the keys already applied are not undone, and the caller issues no resync
\* command, sets a blocked status and does not defer the event.
C19_StopsAtFirstFailure ==
    []NothingAfterFailure /\ [][StopsAtFailure]_vars

\* A run set storage.type, failed to set the next option and left a further
\* option unset; the event had not been deferred.
C19_Witness ==
    /\ SetFailed
    /\ Len(SetCalls) = 2
    /\ Len(_get_pbm_configs(s3_credentials)) = 3
    /\ ~deferred
    /\ unit_status = ConfigBlocked

\* ------------------------------------------- a tool error in the post-check

\* The status poll of _wait_pbm_status that has just been made raised
\* ExecError.
PollRaisedExecError == pc = "wait" /\ wait_error'

\* lines 333-334: that poll sets the blocked status with the message taken
\* from the tool output, ends the function, and neither defers the event nor
\* lets an exception out of the handler.
BlockedByPoll ==
    PollRaisedExecError =>
       /\ unit_status' = BlockedStatus(process_pbm_error("ExecError"))
       /\ wait_polls' = wait_polls + 1
       /\ pc' = "final"
       /\ deferred' = deferred
       /\ escaped' = escaped
       /\ outer_attempt' = outer_attempt

\* After that poll, the function makes no further one and starts no further
\* attempt: the handler goes on to its last line.
NoPollAfterError ==
    wait_error =>
       /\ wait_polls' = wait_polls
       /\ inner_attempt' = inner_attempt
       /\ outer_attempt' = outer_attempt
       /\ resyncs' = resyncs
       /\ deferred' = deferred
       /\ escaped' = escaped
       /\ pc' = "idle"

MaxWaitPolls == ResyncAttempts * ConfigErrorAttempts

\* The status poll of _wait_pbm_status that has just been made reported a
\* resync in progress.
PollReportedResync == pc = "wait" /\ wait_resync'

\* lines 325-332 and 216-220: such a poll sets the waiting status; it is
\* followed by another poll unless it was the last one the two loops allow,
\* and then the caller defers the event under the same waiting status.
ResyncRetried ==
    PollReportedResync =>
       /\ unit_status' = SyncWaiting
       /\ escaped' = escaped
       /\ IF wait_polls' < MaxWaitPolls
          THEN pc' = "wait" /\ deferred' = deferred
          ELSE pc' = "idle" /\ deferred'

\* The post-check never polls more often than the two loops allow, and a
\* run whose last poll reported a resync is not blocked.
ResyncBounded ==
    /\ wait_polls <= MaxWaitPolls
    /\ wait_resync => unit_status = SyncWaiting

\* C21: in the post-check a poll that reports a resync in progress sets a
\* waiting status and is retried; the function makes at most 3 x 20 = 60
\* polls and then raises the resync condition, which the caller turns into a
\* waiting status and a deferral of the event, never into a blocked status.
C21_ResyncWaitsAndDefers == []ResyncBounded /\ [][ResyncRetried]_vars

\* The sixtieth poll reported a resync as well: the run has ended with the
\* event deferred under the waiting status.
C21_Witness ==
    /\ pc = "idle"
    /\ event = CredentialsChanged
    /\ wait_resync
    /\ wait_polls = MaxWaitPolls
    /\ outer_attempt = ResyncAttempts
    /\ deferred
    /\ unit_status = SyncWaiting
    /\ escaped = "none"

\* ------------------------------------------- the role of the configurator

\* The "config --set" commands of this run, whatever their result.
SetsIssued == {i \in DOMAIN pbm_cmds : pbm_cmds[i].cmd = "config --set"}

\* C22: a credentials-changed event handled on a unit that is not the leader
\* issues no "config --set", no "config --force-resync" and no restart of
\* the backup service.
C22_LeaderOnlyConfigures ==
    (event = CredentialsChanged /\ ~is_leader) =>
        /\ SetsIssued = {}
        /\ resyncs = 0
        /\ restarts = 0

\* ------------------------------------------------- transient conditions

\* The driver call of this run of set-password raised NotReadyError, the
\* first time in the run the condition is met.
PasswordNotReady ==
    /\ event.type = "set_password_action"
    /\ calls # <<>>
    /\ calls[Len(calls)].result = "NotReadyError"

\* C23: a transient condition is not surfaced as a failure the first time it
\* is met: in every handler, the set-password action included, it leads to a
\* deferral or a bounded retry, not to a failed action or a blocked status.
C23_TransientNotSurfaced ==
    PasswordNotReady =>
        /\ failed = ""
        /\ unit_status.kind # "blocked"
        /\ deferred \/ pc # "idle"

\* ------------------------------------------- exceptions of a status poll

\* C24: an unexpected exception raised by a status poll is caught and turned
\* into a blocked status with a generic message, and does not leave the
\* handler, wherever the handler polls: here in the post-check loop of the
\* credentials-changed handler.
C24_PollExceptionsCaught ==
    (event = CredentialsChanged /\ wait_polls > 0) => escaped = "none"

\* ----------------------------------------------------------- convergence

\* The desired set: the hosts of the inventory.
Desired == _unit_hosts(peer_units)
Converged == live = Desired

\* A step in which a driver call raised or a host reported not ready: a call
\* recorded with another result than "ok" and "ready", or the update-status
\* handler finding mongod not started (lines 465-467).
ErrorStep ==
    \/ /\ Len(calls') > Len(calls)
       /\ \E i \in (Len(calls) + 1)..Len(calls') :
             calls'[i].result \notin {"ok", "ready"}
    \/ /\ pc = "idle" /\ pc' = "idle"
       /\ event' = UpdateStatus
       /\ db_initialised
       /\ unit_status' = WaitingStatus("Waiting for MongoDB to start")

\* From some point on: this unit is and stays the leader of an initialised
\* database, the inventory does not change, nobody but the charm changes
\* the membership, every host reports ready and no driver call raises.
Settles ==
    /\ <>[](is_leader /\ db_initialised)
    /\ <>[][peer_units' = peer_units]_vars
    /\ <>[][~ClusterDrift]_vars
    /\ <>[][~ErrorStep]_vars

\* C25: if the leader stays leader with db_initialised set, the inventory
\* stops changing, every desired host eventually reports ready, driver errors
\* eventually stop, and deferred events are redelivered or update-status ticks
\* keep arriving, then eventually the live membership equals the desired set
\* and stays equal.
C25_Converges == Settles => <>[]Converged

\* An update-status tick has reconciled a membership that differed from the
\* inventory both ways: one host removed, another added, the sets now equal.
C25_Witness ==
    /\ event = UpdateStatus
    /\ pc = "idle"
    /\ is_leader /\ db_initialised
    /\ Converged
    /\ \E i, j \in DOMAIN calls :
          /\ calls[i].op = "remove_replset_member" /\ calls[i].result = "ok"
          /\ calls[j].op = "add_replset_member" /\ calls[j].result = "ok"

\* ------------------------------------------------- the order of one run

\* The commands of this run that are "config --set", with their results.
SetCmds == SelectSeq(pbm_cmds, LAMBDA c : c.cmd = "config --set")

\* Every key of the option set was applied, each call ending normally.
AllApplied ==
    /\ event = CredentialsChanged
    /\ LET sets == SetCmds
           configs == _get_pbm_configs(s3_credentials)
       IN  /\ Len(sets) = Len(configs)
           /\ \A i \in DOMAIN sets :
                 sets[i].result = "ok" /\ sets[i].arg = configs[i]

\* The pre-check loop has ended on a poll that was neither maintenance nor
\* waiting: all its polls but the last were busy.
PreCheckPassed ==
    /\ event = CredentialsChanged
    /\ attempt > 0
    /\ maint_seen + waiting_seen = attempt - 1

\* The resync command was issued, after every other command of the run.
ResyncIssued ==
    /\ resyncs = 1
    /\ pbm_cmds # <<>>
    /\ \A i \in DOMAIN pbm_cmds :
          pbm_cmds[i].cmd = "config --force-resync" <=> i = Len(pbm_cmds)

\* C26: in one credentials-changed run the resync command is issued only
\* after every configuration key was applied successfully and a pre-check poll
\* saw a status that is neither maintenance nor waiting; the first post-check
\* poll comes after the resync command; at most one resync command is issued,
\* and exactly one when the keys were applied and the pre-check passed.
C26_OrderOfRun ==
    /\ resyncs <= 1
    /\ resyncs = 1 => (PreCheckPassed /\ ResyncIssued /\ AllApplied)
    /\ wait_polls > 0 =>
          (ResyncIssued /\ pbm_cmds[Len(pbm_cmds)].result = "ok")
    /\ (PreCheckPassed /\ pc # "resync" /\ AllApplied) => resyncs = 1

\* Three keys applied, two busy polls of the pre-check and a third that
\* passed, the resync issued, the post-check polling.
C26_Witness ==
    /\ pc = "wait"
    /\ Len(SetCmds) = 3
    /\ AllApplied
    /\ attempt = 3 /\ maint_seen = 1 /\ waiting_seen = 1
    /\ resyncs = 1
    /\ wait_polls = 2

\* ------------------------------------------------ restore and its backup-id

BackupActions == Mutating \cup {"list_backups_action"}
MissingBackupId == "Missing backup-id to restore"

\* A restore run with the relation present and no backup-id is failed with
\* the message of the missing id, on the leader and on any other unit, with
\* no status poll, no deferral and the unit status as it was.
RejectsWithoutId ==
    (ActionRuns({"restore_action"}) /\ s3_relation /\ event.backup_id = "")
    => /\ pc' = "idle"
       /\ failed' = MissingBackupId
       /\ pbm_polls' = 0
       /\ pbm_status' = NoStatus
       /\ ~deferred'
       /\ unit_status' = unit_status

\* No exception leaves a backup action handler; the message of the missing
\* id is given to a restore without id only.
ActionsEndInMessage ==
    /\ event.type \in BackupActions => escaped = "none"
    /\ failed = MissingBackupId =>
          (event.type = "restore_action" /\ event.backup_id = "")

C31_InitialisedOnce ==
    [][(pc = "idle" /\ event' = StartEvent /\ calls' # <<>>)
          => (init_history = "none" /\ ~db_initialised)]_vars

\* ------------------------------------------- propagation after a pass
\* Every removal and every addition the pass had to make was made.
AppliedAll ==
    /\ \A h \in units_to_remove(replset_members, mongodb_hosts) :
          \E i \in DOMAIN calls : calls[i] = Call("remove_replset_member", h, "ok")
    /\ \A h \in units_to_add(event, replset_members, mongodb_hosts) :
          \E i \in DOMAIN calls : calls[i] = Call("add_replset_member", h, "ok")

\* The pass met a host that was not ready and left its additions.
AbortedAdditions ==
    \E i \in DOMAIN calls :
        calls[i].op = "is_ready" /\ calls[i].result = "not_ready"

\* The pass found the members equal to the inventory.
NoOpPass == calls # <<>> /\ calls[1].result = "ok"
            /\ members_match(replset_members, mongodb_hosts)

\* The three parts of C32, one by one.
PropagatesAfterAllApplied == propagated => AppliedAll
NoPropagationAfterAbort == propagated => (~AbortedAdditions /\ ~deferred)
NoPropagationAfterNoOp == propagated => ~NoOpPass

\* C32: the hosts are propagated to the dependent relations only by a pass
\* that applied all its removals and additions: not by a pass that left its
\* additions because a host was not ready (and deferred), not by a pass that
\* found the members equal to the inventory.
C32_PropagatesOnlyWhenApplied ==
    /\ PropagatesAfterAllApplied
    /\ NoPropagationAfterAbort
    /\ NoPropagationAfterNoOp

\* ---------------------------------- the way into the credentials handler
\* The run has pushed no file, issued no pbm command and restarted nothing.
NoBackupCommand ==
    ~pushed /\ pbm_cmds = <<>> /\ restarts = 0 /\ resyncs = 0

\* A run of the credentials-changed handler without the flag has deferred
\* and has ended with no command.
DefersWithoutFlag ==
    (event = CredentialsChanged /\ ~db_initialised)
        => (deferred /\ pc = "idle" /\ NoBackupCommand)

\* The run is past the lookup of the pbm-agent service, which failed: it
\* has deferred the event and no exception clause has deferred it since.
ServiceLookupFailed ==
    event = CredentialsChanged /\ pc = "push" /\ deferred

\* After a failed lookup the handler finishes, with no command.
DefersWithoutService ==
    ServiceLookupFailed => (pc' = "idle" /\ ~pushed' /\ pbm_cmds' = <<>>)

\* C33: the credentials-changed handler runs no backup-tool command unless
\* db_initialised is set and the pbm-agent service exists: without the flag,
\* or when the lookup of the service fails, it defers the event and finishes
\* without pushing the marker file, setting an option, restarting the daemon
\* or issuing a resync.
C33_DefersWithoutCommands ==
    []DefersWithoutFlag /\ [][DefersWithoutService]_vars

\* ------------------------------------- the database first, in every handler
\* A backup action has run to its end and has polled the backup status,
\* with the database in a status that is not active.
ActionOverBrokenDatabase ==
    /\ event \in ActionEvents
    /\ pc = "idle"
    /\ pbm_polls > 0
    /\ database_status.kind # "active"

\* The unit does not show the backup status over such a database.
DatabaseFirst == ActionOverBrokenDatabase => unit_status # pbm_status

\* The step is list-backups at work.
ListBackupsStep == pc = "action" /\ event.type = "list_backups_action"

\* list-backups leaves the unit status as it is.
ListBackupsReadOnly == ListBackupsStep => unit_status' = unit_status

\* C34: the database comes before the backup in every state, not only
\* after update-status: no handler leaves the unit status equal to a backup
\* status while the status of the database is not active, and list-backups,
\* which only reads, does not change the unit status.
C34_DatabaseFirstEverywhere == []DatabaseFirst /\ [][ListBackupsReadOnly]_vars

\* ------------------------------------------------ the cache and the store
\* The cache of every scope this charm object has fetched holds what the
\* secret of the scope holds.
CacheCoherent ==
    \A scope \in DOMAIN secrets :
        /\ scope \in DOMAIN secret_content
        /\ secrets[scope] = secret_content[scope]

\* A set_secret that was skipped ("defined already") was given a value the
\* secret of the scope holds.
SkippedOnlyWhenStored ==
    (secret_op.op = "set_secret" /\ secret_op.result = "defined already")
        => /\ secret_op.scope \in DOMAIN secret_content
           /\ Get(secret_content[secret_op.scope], secret_op.key)
                 = secret_op.value

\* C35: after any sequence of set_secret and remove_secret calls within one
\* event, the calls whose write fails with an OSError included, the cache of
\* a scope equals the content of the secret of the scope, so that a later
\* set_secret of a value the store does not hold is never skipped.
C35_CacheCoherence == CacheCoherent /\ SkippedOnlyWhenStored

\* ------------------------------------------- set-password and the secret
\* The password the store holds for username.
PasswordOf(username) ==
    LET key == get_password_key_name_for_user(username)
    IN  IF ~has_secrets THEN Get(peer_data_keys["app"], key)
        ELSE IF "app" \in DOMAIN secret_content
        THEN Get(secret_content["app"], key)
        ELSE Missing

\* The step leaves the stored secret, the peer data and the layers of the
\* services as they are.
StoreUntouched ==
    /\ secret_content' = secret_content
    /\ peer_data_keys' = peer_data_keys
    /\ tombstoned' = tombstoned
    /\ layers' = layers

\* The cache holds, for each scope, what it held or what was fetched from
\* the secret of the scope: no value that is not stored.
CacheOnlyFetched ==
    \A scope \in DOMAIN secrets' :
        \/ scope \in DOMAIN secrets /\ secrets'[scope] = secrets[scope]
        \/ /\ scope \in DOMAIN secret_content
           /\ secrets'[scope] = secret_content[scope]

\* The password get_secret has read for the user of the action, in the
\* step that compares it with the new one.
PasswordRead ==
    LET key == get_password_key_name_for_user(event.username)
    IN  IF ~has_secrets THEN Get(peer_data_keys["app"], key)
        ELSE IF "app" \in DOMAIN secrets' THEN Get(secrets'["app"], key)
        ELSE Missing

\* The driver call fails: the action fails and ends, nothing is written.
FailedCallWritesNothing ==
    (pc = "set_password" /\ calls' # <<>> /\ calls'[1].result # "ok")
        => (failed' # "" /\ pc' = "idle" /\ StoreUntouched
            /\ CacheOnlyFetched)

\* On a non-leader the action fails with no driver call.
NonLeaderCallsNothing ==
    (pc = "set_password" /\ ~is_leader)
        => (failed' # "" /\ calls' = <<>> /\ pc' = "idle" /\ StoreUntouched
            /\ secrets' = secrets)

\* The new password is the one read: no driver call, no write.
SamePasswordCallsNothing ==
    (/\ pc = "set_password" /\ is_leader
     /\ event.username \in CharmUsers
     /\ event.password = PasswordRead)
        => (calls' = <<>> /\ pc' = "idle" /\ StoreUntouched
            /\ CacheOnlyFetched)

\* The secret, the peer data and the layers change only in the step that
\* follows a driver call that succeeded.
WritesAfterAccepted ==
    ~StoreUntouched
        => (/\ pc = "store_password"
            /\ calls = <<Call("set_user_password", event.username, "ok")>>)

\* C37: set-password changes the stored secret only after the database
\* accepted the new password: when the driver call fails the action fails
\* and the secret, the cache and the layers of the backup and monitor
\* services are unchanged; on a non-leader the action fails with no
\* database call; when the new password equals the stored one there is no
\* database call and no secret write.
C37_SecretAfterDatabase ==
    [][/\ FailedCallWritesNothing
       /\ NonLeaderCallsNothing
       /\ SamePasswordCallsNothing
       /\ WritesAfterAccepted]_vars

\* A run of set-password on the leader whose driver call failed, by the
\* side of a stored password.
C37_Witness ==
    /\ event.type = "set_password_action"
    /\ pc = "idle"
    /\ is_leader
    /\ calls # <<>>
    /\ calls[1].result = "PyMongoError"
    /\ failed # ""
    /\ PasswordOf("operator") \in Passwords

\* ------------------------------------------- the status after a start
\* A step of the start handler that turns the status of the unit to Active.
StartReportsActive ==
    /\ pc = "idle"
    /\ event' = StartEvent
    /\ unit_status # ActiveStatus("")
    /\ unit_status' = ActiveStatus("")

\* The run of the start handler called init_replset and deferred the event.
StartDeferredByInit ==
    /\ pc = "idle"
    /\ event' = StartEvent
    /\ calls' # <<>>
    /\ deferred'

\* C38: a run of the start handler that defers the event because the
\* initialisation of the replica set failed does not set the status of the
\* unit to Active: the start handler reports Active only when
\* db_initialised is set or the unit is not the leader.
C38_NoActiveAfterFailedInit ==
    [][/\ StartDeferredByInit => ~StartReportsActive
       /\ StartReportsActive => (db_initialised' \/ ~is_leader)]_vars

\* ------------------------------------------ the unit that went away
\* A pass for the departure of a unit fetched the members and ran to its
\* end with no error and no deferral.
DeparturePassCompleted ==
    /\ event.type = "relation_departed"
    /\ pc = "idle"
    /\ calls # <<>>
    /\ calls[1] = Call("get_replset_members", NoHost, "ok")
    /\ ~deferred
    /\ escaped = "none"

\* C39: after a pass for the departure of unit B that completes without
\* error or deferral, hostname(B) is not a member of the live set, whether
\* or not the inventory still lists B and whether or not B was a member at
\* the start of the pass.
C39_DepartedNotMember ==
    DeparturePassCompleted => get_hostname_for_unit(event.unit) \notin live

\* The same for the departed units the inventory no longer lists.
DepartedUnlistedNotMember ==
    (/\ DeparturePassCompleted
     /\ get_hostname_for_unit(event.unit) \notin mongodb_hosts)
        => get_hostname_for_unit(event.unit) \notin live

\* -------------------------------------------------- the stop handler
\* A run of the stop handler has ended.
StopEnded == event = StopEvent /\ pc = "idle"

\* The polls of a run are at most UNIT_REMOVAL_TIMEOUT.
PollsBounded == stop_polls <= UNIT_REMOVAL_TIMEOUT

\* A poll that answers that the unit is no member, or whose query failed,
\* is the last poll of the run.
LastPollOnRelease ==
    (pc = "stop_loop" /\ stop_polls > 0 /\ ~is_in_replica_set)
        => stop_polls' = stop_polls

\* The run ends after its last poll with the unit still a member.
StillMemberAtTimeout ==
    /\ StopEnded
    /\ stop_polls = UNIT_REMOVAL_TIMEOUT
    /\ is_in_replica_set

\* Such a run raises the timeout exception and leaves the marker set.
TimeoutRaises ==
    StillMemberAtTimeout => (escaped = "Exception" /\ unit_departed = "True")

\* The marker is reset in the runs that polled and did not time out only.
ResetOffTimeout ==
    unit_departed' # unit_departed
        => (/\ unit_departed' = ""
            /\ pc = "stop_loop"
            /\ ~(stop_polls = UNIT_REMOVAL_TIMEOUT /\ is_in_replica_set))

\* The stop handler of a unit that is not marked departed polls nothing.
UnmarkedPollsNothing ==
    (pc = "idle" /\ event' = StopEvent /\ unit_departed # "True")
        => (pc' = "idle" /\ stop_polls' = 0 /\ calls' = <<>>)

\* C40: the stop handler of a unit marked as departed polls the membership
\* of the replica set at most UNIT_REMOVAL_TIMEOUT times, stops polling as
\* soon as the unit is no member or the query fails, raises the timeout
\* exception when the unit is still a member after the last poll, and
\* resets the marker on the other path only; a unit that is not marked
\* polls nothing.
C40_StopPollsThenTimesOut ==
    /\ [](PollsBounded /\ TimeoutRaises)
    /\ [][/\ LastPollOnRelease
          /\ ResetOffTimeout
          /\ UnmarkedPollsNothing]_vars

\* The parts of the statement that do not speak of the timeout.
StopPollsBounded ==
    /\ []PollsBounded
    /\ [][LastPollOnRelease /\ UnmarkedPollsNothing]_vars

\* A run of the stop handler raised the timeout exception.
StopTimedOut == StopEnded /\ escaped = "Exception"

\* ------------------------------------------------- the marker file first
\* The first pbm command of the run registered the config file.
FileRegistered == pbm_cmds # <<>> /\ pbm_cmds[1].cmd = "config --file"

\* Every "config --set" of the run comes after the push of the file and
\* after the "config --file" command, which is the first command of the run.
MarkerFirst ==
    \A i \in DOMAIN pbm_cmds :
        pbm_cmds[i].cmd = "config --set"
            => (i > 1 /\ FileRegistered /\ pushed)

\* A step that issues "config --file" is taken with the file pushed already.
RegistersPushedFile ==
    (/\ pbm_cmds' # pbm_cmds
     /\ pbm_cmds' # <<>>
     /\ pbm_cmds'[Len(pbm_cmds')].cmd = "config --file")
        => (pushed /\ pushed')

\* C29: in every run of the configurator the empty marker file is pushed,
\* then registered with "config --file", before the first "config --set";
\* this is so too in the runs whose "config --file" command fails.
C29_MarkerFileFirst == []MarkerFirst /\ [][RegistersPushedFile]_vars

\* A run whose "config --file" command failed and which went on to set an
\* option.
C29_Witness ==
    /\ event = CredentialsChanged
    /\ pushed
    /\ Len(pbm_cmds) >= 2
    /\ pbm_cmds[1].cmd = "config --file"
    /\ pbm_cmds[1].result = "ExecError"
    /\ pbm_cmds[2].cmd = "config --set"

\* ------------------------------------- configuration errors in the post-check
\* A status poll of the post-check fails with the error of the tool
\* (ExecError) and the inner loop has attempts left.
ErrorOnEarlyPoll ==
    /\ pc = "wait"
    /\ wait_error'
    /\ inner_attempt' < ConfigErrorAttempts

\* The post-check stays in its loop to poll again, and sets no status.
PollsAgain == pc' = "wait" /\ unit_status' = unit_status

\* C30: a status poll of the post-check that fails with a configuration
\* error is followed by another poll (up to ConfigErrorAttempts polls), and
\* the failed poll sets no blocked status, so that an error which is gone at
\* the next poll leaves none.
C30_ConfigErrorAbsorbed == [][ErrorOnEarlyPoll => PollsAgain]_vars

\* ------------------------------------------- the topology-mismatch pattern
\* The replica-set name of an error text "<preamble>are: <name>.": the
\* characters between the preamble and the closing period.
NameBeforePeriod == SubSeq(error_text, 2, Len(error_text) - 1)

\* The error text is the preamble, a name of one or more characters other
\* than comma and whitespace, and a closing period.
EndsInNameAndPeriod ==
    /\ Len(error_text) >= 3
    /\ error_text[1] = Preamble
    /\ error_text[Len(error_text)] = "."
    /\ \A i \in 2..(Len(error_text) - 1) : NameChar(error_text[i])

\* C28: for an error text of the topology-mismatch form that ends in
\* "are: <name>." (as "are: rs1."), the pattern matches and its first group
\* is exactly <name>, without the closing period.
C28_CapturesNameWithoutPeriod ==
    (EndsInNameAndPeriod /\ remapping # NotSearched)
        => (remapping.match = "Match"
            /\ remapping.groups[1] = NameBeforePeriod)

\* --------------------------------------------------- the initialised flag
\* C17: db_initialised is written only by the leader, only in a run of the
\* start handler in which the initialisation of the replica set and the
\* creation of the operator, backup and monitor users all succeeded (a run
\* that defers leaves it absent); once present, no handler removes or
\* changes it.
C17_FlagWrittenOnce ==
    [][db_initialised' # db_initialised
       => /\ ~db_initialised /\ db_initialised'
          /\ is_leader
          /\ pc = "idle" /\ event' = StartEvent
          /\ ~deferred' /\ escaped' = "none"
          /\ live' # {}
          /\ users_created' = CharmUsers]_vars

\* A run of the start handler on the leader in which nothing raised has set
\* the flag; the three users are marked as created.
C17_Witness ==
    /\ db_initialised
    /\ is_leader
    /\ event = StartEvent
    /\ ~deferred
    /\ users_created = CharmUsers
    /\ live # {}

\* ------------------------------------------------------------- the secrets
\* The step is a call of op that was given scope, key and value.
SecretCall(op, scope, key, value) ==
    /\ secret_op' # secret_op \/ secrets' # secrets
    /\ secret_op'.op = op
    /\ secret_op'.scope = scope
    /\ secret_op'.key = key
    /\ secret_op'.value = value

\* C15: a set_secret(scope, key, value) called while the cache of the scope
\* holds that very value for the key makes no write call at all (no
\* set_content, no add_secret, no peer-data update) and leaves the cache,
\* the stored secret and the peer data as they were.
C15_SameValueWritesNothing ==
    [][\A scope \in Scopes, key \in SecretKeys, value \in SecretValues :
          /\ SecretCall("set_secret", scope, key, value)
          /\ scope \in DOMAIN secrets
          /\ Get(secrets[scope], key) = value
          => /\ secret_op'.writes = <<>>
             /\ secrets' = secrets
             /\ secret_content' = secret_content
             /\ peer_data_keys' = peer_data_keys]_vars

\* A set_secret found its value in the cache and wrote nothing.
C15_Witness ==
    /\ secret_op.op = "set_secret"
    /\ secret_op.value \in SecretValues
    /\ secret_op.result = "defined already"
    /\ secret_op.writes = <<>>
    /\ Get(secrets[secret_op.scope], secret_op.key) = secret_op.value
    /\ Get(secret_content[secret_op.scope], secret_op.key) = secret_op.value

\* The step is a removal of key in scope that wrote its tombstone, through
\* remove_secret or through set_secret with the empty value.
Removal(scope, key) ==
    /\ \/ SecretCall("remove_secret", scope, key, "")
       \/ SecretCall("set_secret", scope, key, "")
    /\ has_secrets
    /\ secret_op'.result = "removed"

\* The removal keeps the key in the stored content, as the tombstone.
TombstoneStored ==
    \A scope \in Scopes, key \in SecretKeys :
        Removal(scope, key)
        => Get(secret_content'[scope], key) = SECRET_DELETED_LABEL

\* The removal leaves the other keys of the scope and the other scope alone.
OthersUntouched ==
    \A scope \in Scopes, key \in SecretKeys :
        Removal(scope, key)
        => /\ \A other \in SecretKeys \ {key} :
                 Get(secret_content'[scope], other)
                     = Get(secret_content[scope], other)
           /\ \A other \in Scopes \ {scope} :
                 /\ other \in DOMAIN secret_content'
                       <=> other \in DOMAIN secret_content
                 /\ other \in DOMAIN secret_content
                       => secret_content'[other] = secret_content[other]
           /\ peer_data_keys' = peer_data_keys

\* A get_secret of a removed key that was not set again returns no value.
RemovedReadsAsNone ==
    \A scope \in Scopes, key \in SecretKeys :
        /\ SecretCall("get_secret", scope, key, "")
        /\ has_secrets
        /\ <<scope, key>> \in tombstoned
        => secret_op'.result = Missing

\* C16: with Juju secrets, a removal of an existing key (remove_secret, or
\* set_secret with the empty value) keeps the key in the stored secret
\* content with the tombstone value, leaves every other key of that scope
\* and every key of the other scope unchanged, and every later get_secret of
\* the key returns no value until the key is set again.
C16_LogicalRemoval ==
    [][TombstoneStored /\ OthersUntouched /\ RemovedReadsAsNone]_vars

\* ------------------------------------------------------ the round trip
\* The last call was a set_secret of value for the key of the scope, which
\* returned, and the step is a get_secret of that key.
GetAfterSet(scope, key, value) ==
    /\ secret_op.op = "set_secret"
    /\ secret_op.scope = scope /\ secret_op.key = key
    /\ secret_op.value = value
    /\ secret_op.result # "SecretNotAddedError"
    /\ SecretCall("get_secret", scope, key, "")

\* The get_secret returns what the set_secret before it was given, for
\* each of values.
RoundTrip(values) ==
    \A scope \in Scopes, key \in SecretKeys, value \in values :
        GetAfterSet(scope, key, value) => secret_op'.result = value

\* The round trip of the values that are not the text of the tombstone.
RoundTripOfOthers ==
    [][RoundTrip(SecretValues \ {SECRET_DELETED_LABEL})]_vars

\* C36: for every scope, key and non-empty value v, the text of the
\* tombstone included, set_secret(scope, key, v) followed by
\* get_secret(scope, key) returns v, also when the key was removed before
\* the set.
C36_SecretRoundTrip == [][RoundTrip(SecretValues)]_vars

====
